---- MODULE Spec2Model ----
(***************************************************************************)
(* Verification model of the blog API of this repository:                  *)
(*   - the post routes of server/src/routes/posts.js (create, update,      *)
(*     delete, like toggle, comment) over the posts collection,            *)
(*   - the same like toggle split at its await points, for the behaviour   *)
(*     of requests that interleave,                                        *)
(*   - the error normaliser of server/src/middleware/errorHandler.js.      *)
(*                                                                         *)
(* Strings are sequences of one-character strings, so that trim() is       *)
(* computed and not assumed.  A request body is a function whose domain    *)
(* is the set of fields the client sent.  The posts collection is a        *)
(* function from the ids of the stored documents to the documents.         *)
(***************************************************************************)
EXTENDS Integers, Sequences, FiniteSets, TLC

(* ------------------------------ bounds -------------------------------- *)

\* number of registered users that send requests
NumUsers == 2
\* number of ObjectIds the collection can hand out (ids are never reused)
MaxPosts == 1
\* cap on a document's version key __v (one increment per save of an array)
MaxVersion == 4
\* cap on the number of comments of a post
MaxComments == 2
\* number of like requests in flight at the same time
MaxRequests == 2
\* errorHandler calls in a run
MaxErrors == 1

Users == 1..NumUsers
PostIds == 1..MaxPosts

(* ------------------------------ strings ------------------------------- *)

SP == " "

RECURSIVE TrimLeft(_)
TrimLeft(s) == IF s # <<>> /\ Head(s) = SP THEN TrimLeft(Tail(s)) ELSE s

RECURSIVE TrimRight(_)
TrimRight(s) ==
    IF s # <<>> /\ s[Len(s)] = SP THEN TrimRight(SubSeq(s, 1, Len(s) - 1)) ELSE s

\* express-validator's trim() sanitizer: strips whitespace at both ends
Trim(s) == TrimRight(TrimLeft(s))

\* JavaScript truthiness of a string: only '' is falsy
Truthy(s) == s # <<>>

\* values a client sends
TitleInputs == { <<>>, <<"a">>, <<SP, "b", SP>> }
ContentInputs == { <<SP>>, <<"c">>, <<"d", SP>> }
TagInputs == { <<>>, << <<"g">> >> }
CommentInputs == { <<>>, <<"x">>, <<SP, "y">> }

Has(body, k) == k \in DOMAIN body

\* req.body of POST /api/posts and PUT /api/posts/:id: any subset of the
\* three fields, each with one of the values above
PostBodies ==
    { [k \in D |-> CASE k = "title" -> t [] k = "content" -> c [] OTHER -> g] :
        D \in SUBSET {"title", "content", "tags"},
        t \in TitleInputs, c \in ContentInputs, g \in TagInputs }

CommentBodies ==
    { [k \in D |-> c] : D \in SUBSET {"content"}, c \in CommentInputs }

(* --------------------------- Post documents --------------------------- *)

\* what the Post schema fills in for a new document
PostDefaults == [likes |-> <<>>, comments |-> <<>>, isPublished |-> TRUE, v |-> 0]

\* virtuals of the Post schema
likeCount(post) == Len(post.likes)
commentCount(post) == Len(post.comments)

NewPost(title, content, author, tags) ==
    [title |-> title, content |-> content, author |-> author, tags |-> tags,
     likes |-> PostDefaults.likes, comments |-> PostDefaults.comments,
     isPublished |-> PostDefaults.isPublished, v |-> PostDefaults.v]

VARIABLES
    posts,      \* the posts collection: stored id -> document
    nextId,     \* the next ObjectId the collection hands out
    creator,    \* history: id -> the user whose request created the post
    req,        \* the request handled last: op, user, id, valid (its
                \* body passed the validation chain of the route)
    res,        \* the response to it: status, message, data
    pre1,       \* history: like list before the last request (a toggle)
    pre2,       \* history: like list before the toggle right before it
    inflight,   \* the like requests in flight: pc, user, seen (the number
                \* of save()s before its findById), doc (as loaded), mine
                \* (its document after the toggle), res
    saveOrder,  \* history: the requests in flight in the order of their save()
    nodeEnv,    \* process.env.NODE_ENV
    thrown,     \* the error and the request errorHandler was called with last
    reply,      \* what it passed to res.status() and res.json()
    effects,    \* what else that call did: its calls of res.status(),
                \* res.json() and next(), and the err object as it left it
    logged,     \* the entries the logger wrote to the console, in order
    appends,    \* the fs.appendFile() calls of the logger: [file, n] (n: the
                \* index of the entry in logged) -> pending, written or failed
    accounts,   \* the ids of the users the User collection holds
    gate,       \* the auth middleware's last call: its input and outcome
    paging,     \* a caller of helpers.paginate walking the pages of an
                \* array: array, limit, page (the page asked for last), out
                \* (what paginate returned), walked (the data of the pages
                \* so far, concatenated)
    pipe,       \* a request on its way through the middleware: chain (the
                \* middleware still to run), requestId, header (the
                \* X-Request-ID response header), end (the wrappers around
                \* res.end, the outermost last), pc, level (the wrapper the
                \* call of res.end is in; 0: the original end), called (the
                \* arguments the handler called res.end with), args (the
                \* arguments of the call in progress), statusCode, events
                \* (history: the logger calls and the original end's call)
    tracker,    \* responseTimeTracker: slow and errors (the Maps, as the
                \* entries <<endpoint, count>> in insertion order), last
                \* (the method called last), result (what it returned),
                \* calls (history: per endpoint the tracked calls that were
                \* slow and that were errors), n (the calls of the model)
    proc,       \* the server process with handleGracefulShutdown
                \* installed: signals (received so far), server
                \* ("listening", "closing" or "closed"), connections (open),
                \* closeCalls (the calls of server.close), callbacks (those
                \* waiting for the server's 'close' event), timers (the
                \* pending 10-second timers), exit (<<>> while the process
                \* runs, then <<code>>), events (history)
    boundary,   \* a mounted ErrorBoundary: state (this.state), child
                \* (whether its child throws when rendered), pc ("render":
                \* a render is due, "commit": componentDidCatch is due,
                \* "idle"), last (the method that ran last), rendered
                \* (history: what render returned, in order)
    site        \* the auth routes: users (the User collection: id ->
                \* document), nextUser, loginStatus (the status code the
                \* login route gives a failed login), op and sent (the
                \* request handled last), res (the response to it), issued
                \* (history: the tokens returned, each with the email of
                \* the account as returned and as submitted at its
                \* registration), registeredAs (history: id -> the email
                \* submitted), failed (history: the failed logins, each with
                \* what was wrong and the response)

apiVars == <<posts, nextId, creator, req, res, pre1, pre2>>
raceVars == <<inflight, saveOrder>>
errVars == <<nodeEnv, thrown, reply, effects, logged, appends>>
authVars == <<accounts, gate>>
otherVars == <<paging, pipe, tracker, proc, boundary, site>>
vars == <<apiVars, raceVars, errVars, authVars, otherVars>>

NoData == [k \in {} |-> 0]
\* history value for "no toggle": user 0 is nobody
NoList == << [user |-> 0] >>

Response(status, message, data) ==
    [status |-> status, message |-> message, data |-> data]

Request(op, user, id, valid) ==
    [op |-> op, user |-> user, id |-> id, valid |-> valid]

(* ------------------------ persistence (mongoose) ---------------------- *)

\* Post.findById resolves to the stored document, or to null when there is none
Found(db, id) == id \in DOMAIN db

\* save() of a document on which exactly one array got elements push()ed:
\* the change sent to the store is the pushed element ($push) with $inc __v;
\* it is applied to the array as stored at that time.  A document that is
\* no longer stored makes save() reject.
SavePush(db, id, path, elem) ==
    IF ~Found(db, id) THEN [ok |-> FALSE, db |-> db]
    ELSE [ok |-> TRUE,
          db |-> IF path = "likes"
                 THEN [db EXCEPT ![id].likes = Append(@, elem), ![id].v = @ + 1]
                 ELSE [db EXCEPT ![id].comments = Append(@, elem), ![id].v = @ + 1]]

\* save() of a document whose likes array was assigned a new array: the
\* whole array is sent ($set) under the condition that the stored __v is
\* still the loaded one, with $inc __v; otherwise save() rejects (VersionError)
SaveSetLikes(db, id, likes, loaded) ==
    IF Found(db, id) /\ db[id].v = loaded
    THEN [ok |-> TRUE, db |-> [db EXCEPT ![id].likes = likes, ![id].v = @ + 1]]
    ELSE [ok |-> FALSE, db |-> db]

ServerError == Response(500, "Server error", NoData)
PostNotFound == Response(404, "Post not found", NoData)
ValidationFailed == Response(400, "Validation failed", NoData)

(* ------------------------------ handlers ------------------------------ *)
\* Each handler maps the collection and an authenticated request to the
\* collection afterwards and the response: [db, res].

\* the validation chain of a route: the sanitized body
Sanitized(body) ==
    [k \in DOMAIN body |-> IF k \in {"title", "content"} THEN Trim(body[k]) ELSE body[k]]

\* POST /: title and content are required and not empty after trim()
CreateValid(body) ==
    /\ Has(body, "title") /\ Truthy(Trim(body.title))
    /\ Has(body, "content") /\ Truthy(Trim(body.content))

CreateHandler(db, id, user, body) ==
    IF ~CreateValid(body) THEN [db |-> db, res |-> ValidationFailed]
    ELSE LET b == Sanitized(body)
             post == NewPost(b.title, b.content, user,
                             IF Has(b, "tags") THEN b.tags ELSE <<>>)
         IN  [db |-> (id :> post) @@ db,
              res |-> Response(201, "Post created successfully", NoData)]

\* PUT /:id: title and content are optional, and not empty after trim() when sent
UpdateValid(body) ==
    /\ Has(body, "title") => Truthy(Trim(body.title))
    /\ Has(body, "content") => Truthy(Trim(body.content))

\* updateData: the fields of the body that are truthy (an array always is)
UpdateData(body) ==
    [k \in {f \in DOMAIN body : f = "tags" \/ Truthy(body[f])} |-> body[k]]

\* variant of FindByIdAndUpdate: the document is replaced by the given fields
FindByIdAndUpdateReplaces(db, id, data) ==
    IF ~Found(db, id) THEN db
    ELSE [db EXCEPT ![id] =
            [@ EXCEPT !.title = IF Has(data, "title") THEN data.title ELSE @,
                      !.content = IF Has(data, "content") THEN data.content ELSE @,
                      !.tags = IF Has(data, "tags") THEN data.tags ELSE <<>>,
                      !.likes = <<>>]]

\* Post.findByIdAndUpdate(id, updateData): $set of the given fields
FindByIdAndUpdate(db, id, data) ==
    IF ~Found(db, id) THEN db
    ELSE [db EXCEPT ![id] =
            [@ EXCEPT !.title = IF Has(data, "title") THEN data.title ELSE @,
                      !.content = IF Has(data, "content") THEN data.content ELSE @,
                      !.tags = IF Has(data, "tags") THEN data.tags ELSE @]]

\* variant of UpdateHandler: no ownership check, the updater becomes the author
UpdateHandlerTakesOver(db, id, user, body) ==
    IF ~UpdateValid(body) THEN [db |-> db, res |-> ValidationFailed]
    ELSE IF ~Found(db, id) THEN [db |-> db, res |-> PostNotFound]
    ELSE [db |-> [FindByIdAndUpdate(db, id, UpdateData(Sanitized(body)))
                    EXCEPT ![id].author = user],
          res |-> Response(200, "Post updated successfully", NoData)]

UpdateHandler(db, id, user, body) ==
    IF ~UpdateValid(body) THEN [db |-> db, res |-> ValidationFailed]
    ELSE IF ~Found(db, id) THEN [db |-> db, res |-> PostNotFound]
    ELSE IF db[id].author # user
    THEN [db |-> db, res |-> Response(403, "Not authorized to update this post", NoData)]
    ELSE [db |-> FindByIdAndUpdate(db, id, UpdateData(Sanitized(body))),
          res |-> Response(200, "Post updated successfully", NoData)]

\* Post.findByIdAndDelete(id)
FindByIdAndDelete(db, id) == [i \in DOMAIN db \ {id} |-> db[i]]

\* variant of DeleteHandler: no ownership check
DeleteHandlerAnyUser(db, id, user) ==
    IF ~Found(db, id) THEN [db |-> db, res |-> PostNotFound]
    ELSE [db |-> FindByIdAndDelete(db, id),
          res |-> Response(200, "Post deleted successfully", NoData)]

DeleteHandler(db, id, user) ==
    IF ~Found(db, id) THEN [db |-> db, res |-> PostNotFound]
    ELSE IF db[id].author # user
    THEN [db |-> db, res |-> Response(403, "Not authorized to delete this post", NoData)]
    ELSE [db |-> FindByIdAndDelete(db, id),
          res |-> Response(200, "Post deleted successfully", NoData)]

\* post.likes.find(like => like.user.toString() === req.user._id.toString())
ExistingLike(doc, user) == \E i \in 1..Len(doc.likes) : doc.likes[i].user = user

\* variants of ToggleLike
ToggleLikeAlwaysPushes(db, id, doc, user) ==
    LET like == [user |-> user]
        saved == SavePush(db, id, "likes", like)
        mine == [doc EXCEPT !.likes = Append(@, like), !.v = @ + 1]
    IN  [db |-> saved.db, doc |-> mine,
         res |-> Response(200, "Post liked",
                    [liked |-> TRUE, likeCount |-> likeCount(mine)])]

ToggleLikeClears(db, id, doc, user) ==
    IF ExistingLike(doc, user)
    THEN LET saved == SaveSetLikes(db, id, <<>>, doc.v)
             mine == [doc EXCEPT !.likes = <<>>, !.v = @ + 1]
         IN  [db |-> saved.db, doc |-> mine,
              res |-> Response(200, "Post unliked",
                         [liked |-> FALSE, likeCount |-> likeCount(mine)])]
    ELSE ToggleLikeAlwaysPushes(db, id, doc, user)

ToggleLikeStaleCount(db, id, doc, user) ==
    IF ExistingLike(doc, user)
    THEN LET likes == SelectSeq(doc.likes, LAMBDA like : like.user # user)
             saved == SaveSetLikes(db, id, likes, doc.v)
         IN  [db |-> saved.db, doc |-> [doc EXCEPT !.likes = likes, !.v = @ + 1],
              res |-> Response(200, "Post unliked",
                         [liked |-> FALSE, likeCount |-> likeCount(doc)])]
    ELSE LET like == [user |-> user]
             saved == SavePush(db, id, "likes", like)
         IN  [db |-> saved.db,
              doc |-> [doc EXCEPT !.likes = Append(@, like), !.v = @ + 1],
              res |-> Response(200, "Post liked",
                         [liked |-> TRUE, likeCount |-> likeCount(doc)])]

ToggleLikeOverwrites(db, id, doc, user) ==
    LET likes == IF ExistingLike(doc, user)
                 THEN SelectSeq(doc.likes, LAMBDA like : like.user # user)
                 ELSE Append(doc.likes, [user |-> user])
        mine == [doc EXCEPT !.likes = likes, !.v = @ + 1]
    IN  [db |-> [db EXCEPT ![id] = mine], doc |-> mine,
         res |-> Response(200, IF ExistingLike(doc, user) THEN "Post unliked"
                               ELSE "Post liked",
                    [liked |-> ~ExistingLike(doc, user), likeCount |-> likeCount(mine)])]

\* The like toggle on a loaded document, from after findById to the
\* response: doc is the document as it was loaded, db the collection at
\* the time of save().  The result's doc is the request's own document
\* after save().
ToggleLike(db, id, doc, user) ==
    IF ExistingLike(doc, user)
    THEN LET likes == SelectSeq(doc.likes, LAMBDA like : like.user # user)
             saved == SaveSetLikes(db, id, likes, doc.v)
             mine == [doc EXCEPT !.likes = likes, !.v = @ + 1]
         IN  IF saved.ok
             THEN [db |-> saved.db, doc |-> mine,
                   res |-> Response(200, "Post unliked",
                              [liked |-> FALSE, likeCount |-> likeCount(mine)])]
             ELSE [db |-> db, doc |-> [doc EXCEPT !.likes = likes], res |-> ServerError]
    ELSE LET like == [user |-> user]
             saved == SavePush(db, id, "likes", like)
             mine == [doc EXCEPT !.likes = Append(@, like), !.v = @ + 1]
         IN  IF saved.ok
             THEN [db |-> saved.db, doc |-> mine,
                   res |-> Response(200, "Post liked",
                              [liked |-> TRUE, likeCount |-> likeCount(mine)])]
             ELSE [db |-> db, doc |-> [doc EXCEPT !.likes = Append(@, like)],
                   res |-> ServerError]

\* variant of LikeHandler: no check of the loaded post, the like list of
\* null is read and the catch block answers
LikeHandlerNoNullCheck(db, id, user) ==
    IF ~Found(db, id) THEN [db |-> db, res |-> ServerError]
    ELSE LET r == ToggleLike(db, id, db[id], user) IN [db |-> r.db, res |-> r.res]

LikeHandler(db, id, user) ==
    IF ~Found(db, id) THEN [db |-> db, res |-> PostNotFound]
    ELSE LET r == ToggleLike(db, id, db[id], user) IN [db |-> r.db, res |-> r.res]

\* POST /:id/comment: content is required and not empty after trim()
CommentValid(body) == Has(body, "content") /\ Truthy(Trim(body.content))

\* variant of CommentHandler: unshift() instead of push()
CommentHandlerUnshift(db, id, user, body) ==
    IF ~CommentValid(body) THEN [db |-> db, res |-> ValidationFailed]
    ELSE IF ~Found(db, id) THEN [db |-> db, res |-> PostNotFound]
    ELSE LET newComment == [user |-> user, content |-> Sanitized(body).content]
             mine == [db[id] EXCEPT !.comments = <<newComment>> \o @, !.v = @ + 1]
         IN  [db |-> [db EXCEPT ![id] = mine],
              res |-> Response(201, "Comment added successfully",
                         [comment |-> mine.comments[Len(mine.comments)],
                          commentCount |-> commentCount(mine)])]

CommentHandler(db, id, user, body) ==
    IF ~CommentValid(body) THEN [db |-> db, res |-> ValidationFailed]
    ELSE IF ~Found(db, id) THEN [db |-> db, res |-> PostNotFound]
    ELSE LET newComment == [user |-> user, content |-> Sanitized(body).content]
             saved == SavePush(db, id, "comments", newComment)
             mine == [db[id] EXCEPT !.comments = Append(@, newComment)]
         IN  IF saved.ok
             THEN [db |-> saved.db,
                   res |-> Response(201, "Comment added successfully",
                              [comment |-> mine.comments[Len(mine.comments)],
                               commentCount |-> commentCount(mine)])]
             ELSE [db |-> db, res |-> ServerError]

(* ------------------- requests served one after another ---------------- *)

\* the handler of a request finished: record the request, its response and
\* the like lists before the last two toggles
Served(r, out, likesBefore) ==
    /\ posts' = out.db
    /\ req' = r
    /\ res' = out.res
    /\ pre1' = IF r.op = "like" /\ out.res.status = 200 THEN likesBefore ELSE NoList
    /\ pre2' = IF /\ r.op = "like" /\ out.res.status = 200
                  /\ req.op = "like" /\ res.status = 200
                  /\ req.user = r.user /\ req.id = r.id
               THEN pre1 ELSE NoList
    /\ UNCHANGED <<raceVars, errVars, authVars, otherVars>>

Create(user, body) ==
    /\ CreateValid(body) => nextId <= MaxPosts
    /\ LET out == CreateHandler(posts, nextId, user, body)
       IN  /\ Served(Request("create", user, nextId, CreateValid(body)), out, NoList)
           /\ nextId' = IF out.res.status = 201 THEN nextId + 1 ELSE nextId
           /\ creator' = IF out.res.status = 201 THEN (nextId :> user) @@ creator
                          ELSE creator

Update(user, id, body) ==
    /\ Served(Request("update", user, id, UpdateValid(body)),
              UpdateHandler(posts, id, user, body), NoList)
    /\ UNCHANGED <<nextId, creator>>

Delete(user, id) ==
    /\ Served(Request("delete", user, id, TRUE), DeleteHandler(posts, id, user), NoList)
    /\ UNCHANGED <<nextId, creator>>

Like(user, id) ==
    /\ Found(posts, id) => posts[id].v < MaxVersion
    /\ Served(Request("like", user, id, TRUE), LikeHandler(posts, id, user),
              IF Found(posts, id) THEN posts[id].likes ELSE NoList)
    /\ UNCHANGED <<nextId, creator>>

Comment(user, id, body) ==
    /\ Found(posts, id) => posts[id].v < MaxVersion /\ Len(posts[id].comments) < MaxComments
    /\ Served(Request("comment", user, id, CommentValid(body)),
              CommentHandler(posts, id, user, body), NoList)
    /\ UNCHANGED <<nextId, creator>>

NoRequest == Request("none", 0, 0, TRUE)
NoPosts == [i \in {} |-> NewPost(<<>>, <<>>, 0, <<>>)]
NoInflight == [i \in {} |-> 0]
NoResponse == Response(0, "", NoData)
NoError == [err |-> NoData, headers |-> NoData]
NoReply == [status |-> 0, json |-> NoData]
NoEffects == [statusCalls |-> 0, jsonCalls |-> 0, nextCalls |-> 0, err |-> NoData]
NoAppends == [op \in {} |-> "pending"]
NoGate == [header |-> [present |-> FALSE], lookupFails |-> FALSE,
           next |-> FALSE, user |-> NoData, res |-> NoResponse]

NoPaging == [array |-> <<>>, limit |-> 1, page |-> 0, out |-> NoData, walked |-> <<>>]

NoPipe == [chain |-> <<>>, requestId |-> "", header |-> "", end |-> <<>>,
           pc |-> "chain", level |-> 0, called |-> <<>>, args |-> <<>>,
           statusCode |-> 200, events |-> <<>>]

NoTracker == [slow |-> <<>>, errors |-> <<>>, last |-> "none", result |-> <<>>,
              calls |-> <<>>, n |-> 0]

NoProc == [signals |-> 0, server |-> "listening", connections |-> 0,
           closeCalls |-> 0, callbacks |-> 0, timers |-> 0, exit |-> <<>>,
           events |-> <<>>]

NoBoundary == [state |-> NoData, child |-> FALSE, pc |-> "idle", last |-> "none",
               rendered |-> <<>>]

NoSite == [users |-> NoData, nextUser |-> 1, loginStatus |-> 0, op |-> "none",
           sent |-> NoData, res |-> NoData, issued |-> <<>>, registeredAs |-> NoData,
           failed |-> {}]

\* the components outside the posts API are at rest
OthersIdle ==
    /\ paging = NoPaging
    /\ pipe = NoPipe
    /\ tracker = NoTracker
    /\ proc = NoProc
    /\ boundary = NoBoundary
    /\ site = NoSite

\* before errorHandler was called: nothing sent, nothing logged
NothingHandled ==
    /\ thrown = NoError
    /\ reply = NoReply
    /\ effects = NoEffects
    /\ logged = <<>>
    /\ appends = NoAppends

\* before the auth middleware was called; every user of the model has an account
NobodyAtTheGate ==
    /\ accounts = Users
    /\ gate = NoGate

(* ------------------------------ auth gate ----------------------------- *)
\* The auth middleware is required by the routes (posts.js line 4) and runs
\* first in each private route's chain.  It is described here by its
\* contract: the Authorization header is absent, or is a text that does not
\* start with 'Bearer ', or carries a token; jwt.verify accepts a token that
\* is signed with the server's secret and has not expired; User.findById
\* resolves to the user's document, to null, or rejects.

NobodyId == 0
Token(signed, expired, userId) ==
    [signed |-> signed, expired |-> expired, userId |-> userId]
Tokens ==
    { Token(signed, expired, userId) :
        signed \in BOOLEAN, expired \in BOOLEAN, userId \in Users \cup {NobodyId} }
AuthHeaders ==
    { [present |-> FALSE] }
    \cup { [present |-> TRUE, bearer |-> FALSE, text |-> t] :
             t \in {"token123", "InvalidFormat token123"} }
    \cup { [present |-> TRUE, bearer |-> TRUE, token |-> t] : t \in Tokens }

\* a document of the User collection, and what select('-password') leaves of it
UserDoc(id) == [id |-> id, username |-> "user", password |-> "hash"]
WithoutPassword(doc) == [k \in DOMAIN doc \ {"password"} |-> doc[k]]

Unauthorized(message) == Response(401, message, NoData)
GateRejects(message) ==
    [next |-> FALSE, user |-> NoData, res |-> Unauthorized(message)]

\* variant of AuthGate: req.user is the whole document
AuthGateKeepsPassword(header, lookupFails, store) ==
    IF ~header.present THEN GateRejects("No token, authorization denied")
    ELSE IF \/ ~header.bearer
            \/ ~header.token.signed \/ header.token.expired
            \/ lookupFails \/ header.token.userId \notin store
    THEN GateRejects("Token is not valid")
    ELSE [next |-> TRUE, user |-> UserDoc(header.token.userId), res |-> NoResponse]

\* variant of AuthGate: the 401 of a token whose user is gone is followed by next()
AuthGateFallsThrough(header, lookupFails, store) ==
    IF ~header.present THEN GateRejects("No token, authorization denied")
    ELSE IF ~header.bearer \/ ~header.token.signed \/ header.token.expired \/ lookupFails
    THEN GateRejects("Token is not valid")
    ELSE IF header.token.userId \notin store
    THEN [GateRejects("Token is not valid") EXCEPT !.next = TRUE]
    ELSE [next |-> TRUE, user |-> WithoutPassword(UserDoc(header.token.userId)),
          res |-> NoResponse]

\* variant of AuthGate: an expired token gets a message of its own
AuthGateTellsExpiry(header, lookupFails, store) ==
    IF ~header.present THEN GateRejects("No token, authorization denied")
    ELSE IF ~header.bearer \/ ~header.token.signed
    THEN GateRejects("Token is not valid")
    ELSE IF header.token.expired THEN GateRejects("Token expired")
    ELSE IF lookupFails \/ header.token.userId \notin store
    THEN GateRejects("Token is not valid")
    ELSE [next |-> TRUE, user |-> WithoutPassword(UserDoc(header.token.userId)),
          res |-> NoResponse]

\* auth(req, res, next): whether next() is called, req.user, the response
AuthGate(header, lookupFails, store) ==
    IF ~header.present THEN GateRejects("No token, authorization denied")
    ELSE IF ~header.bearer THEN GateRejects("Token is not valid")
    ELSE IF ~header.token.signed \/ header.token.expired
    THEN GateRejects("Token is not valid")
    ELSE IF lookupFails \/ header.token.userId \notin store
    THEN GateRejects("Token is not valid")
    ELSE [next |-> TRUE, user |-> WithoutPassword(UserDoc(header.token.userId)),
          res |-> NoResponse]

PrivateRoutes == {"create", "update", "delete", "like", "comment"}

\* variant of PrivateRoute: the validation chain answers before the gate
PrivateRouteValidatesFirst(db, id, op, header, body) ==
    IF \/ (op = "create" /\ ~CreateValid(body))
       \/ (op = "update" /\ ~UpdateValid(body))
       \/ (op = "comment" /\ ~CommentValid(body))
    THEN [db |-> db, res |-> ValidationFailed]
    ELSE [db |-> db, res |-> AuthGate(header, FALSE, Users).res]

\* a private route: auth is the first element of the chain (posts.js lines
\* 12, 131, 191, 227, 278); when it does not call next() its response is the
\* route's response, otherwise validation and the handler run for req.user
PrivateRoute(db, id, op, header, body) ==
    LET g == AuthGate(header, FALSE, Users)
    IN  IF ~g.next THEN [db |-> db, res |-> g.res]
        ELSE CASE op = "create" -> CreateHandler(db, id, g.user.id, body)
               [] op = "update" -> UpdateHandler(db, id, g.user.id, body)
               [] op = "delete" -> DeleteHandler(db, id, g.user.id)
               [] op = "like" -> LikeHandler(db, id, g.user.id)
               [] OTHER -> CommentHandler(db, id, g.user.id, body)

\* the bodies sent with a request that the gate rejects
RejectedBodies(op) ==
    IF op \in {"create", "update"}
    THEN { b \in PostBodies : DOMAIN b = {"title"} /\ Len(b.title) <= 1 }
    ELSE IF op = "comment"
    THEN { b \in CommentBodies : DOMAIN b = {"content"} /\ Len(b.content) <= 1 }
    ELSE {NoData}

\* a request on a private route that the gate does not let pass; the
\* request has no user
Reject(op, id, header, body) ==
    /\ ~AuthGate(header, FALSE, Users).next
    /\ Served(Request(op, NobodyId, id, TRUE), PrivateRoute(posts, id, op, header, body),
              NoList)
    /\ UNCHANGED <<nextId, creator>>

Init ==
    /\ posts = NoPosts
    /\ nextId = 1
    /\ creator = [i \in {} |-> 0]
    /\ req = NoRequest
    /\ res = NoResponse
    /\ pre1 = NoList
    /\ pre2 = NoList
    /\ inflight = NoInflight
    /\ saveOrder = <<>>
    /\ nodeEnv = "test"
    /\ NothingHandled
    /\ NobodyAtTheGate
    /\ OthersIdle

Next ==
    \/ \E user \in Users, body \in PostBodies : Create(user, body)
    \/ \E user \in Users, id \in PostIds, body \in PostBodies : Update(user, id, body)
    \/ \E user \in Users, id \in PostIds : Delete(user, id)
    \/ \E user \in Users, id \in PostIds : Like(user, id)
    \/ \E user \in Users, id \in PostIds, body \in CommentBodies : Comment(user, id, body)

Spec == Init /\ [][Next]_vars

(* ----------------------- updates of two posts ------------------------ *)
\* The collection holds a post of each of two users, each liked and
\* commented by the other; PUT requests of both users arrive.

TwoPosts ==
    [id \in {1, 2} |->
       [NewPost(<<"a">>, <<"c">>, id, <<>>)
          EXCEPT !.likes = <<[user |-> 3 - id]>>,
                 !.comments = <<[user |-> 3 - id, content |-> <<"x">>]>>,
                 !.v = 2]]

InitUpdate ==
    /\ posts = TwoPosts
    /\ nextId = 3
    /\ creator = [id \in {1, 2} |-> id]
    /\ req = NoRequest
    /\ res = NoResponse
    /\ pre1 = NoList
    /\ pre2 = NoList
    /\ inflight = NoInflight
    /\ saveOrder = <<>>
    /\ nodeEnv = "test"
    /\ NothingHandled
    /\ NobodyAtTheGate
    /\ OthersIdle

NextUpdate ==
    \E user \in {1, 2}, id \in {1, 2}, body \in PostBodies : Update(user, id, body)

SpecUpdate == InitUpdate /\ [][NextUpdate]_vars

(* --------------- requests with and without a valid token -------------- *)
\* Next serves the requests of users the gate lets pass; here requests that
\* it rejects arrive in between.

RejectedHeaders ==
    { [present |-> FALSE],
      [present |-> TRUE, bearer |-> FALSE, text |-> "token123"],
      [present |-> TRUE, bearer |-> TRUE, token |-> Token(FALSE, FALSE, 1)],
      [present |-> TRUE, bearer |-> TRUE, token |-> Token(TRUE, TRUE, 1)],
      [present |-> TRUE, bearer |-> TRUE, token |-> Token(TRUE, FALSE, NobodyId)] }

NextPrivate ==
    \/ Next
    \/ \E op \in PrivateRoutes, id \in PostIds, header \in RejectedHeaders :
          \E body \in RejectedBodies(op) : Reject(op, id, header, body)

SpecPrivate == Init /\ [][NextPrivate]_vars

(* ------------------------- the auth gate alone ------------------------ *)

InitAuth ==
    /\ posts = NoPosts
    /\ nextId = 1
    /\ creator = [i \in {} |-> 0]
    /\ req = NoRequest
    /\ res = NoResponse
    /\ pre1 = NoList
    /\ pre2 = NoList
    /\ inflight = NoInflight
    /\ saveOrder = <<>>
    /\ nodeEnv = "test"
    /\ NothingHandled
    /\ OthersIdle
    /\ accounts \in SUBSET Users
    /\ gate = NoGate

\* a request reaches the middleware; the lookup of the user may fail
Authenticate(header, lookupFails) ==
    /\ gate' = [header |-> header, lookupFails |-> lookupFails]
                @@ AuthGate(header, lookupFails, accounts)
    /\ UNCHANGED <<apiVars, raceVars, errVars, accounts, otherVars>>

NextAuth ==
    \E header \in AuthHeaders, lookupFails \in BOOLEAN : Authenticate(header, lookupFails)

SpecAuth == InitAuth /\ [][NextAuth]_vars

(* --------------------- like requests that interleave ------------------ *)
\* POST /:id/like has two await points: findById and save().  A request in
\* flight is at "idle" (not yet arrived), "loaded" (findById resolved, the
\* document is in the handler's hands) or "done" (response sent).

RacePost == CHOOSE id \in PostIds : \A other \in PostIds : id <= other
Requests == 1..MaxRequests

RECURSIVE ListsUpTo(_)
ListsUpTo(n) ==
    IF n = 0 THEN { <<>> }
    ELSE LET shorter == ListsUpTo(n - 1)
         IN  shorter \cup
             { Append(l, [user |-> u]) :
                 l \in { k \in shorter : Len(k) = n - 1 },
                 u \in Users }

DuplicateFree(likes) ==
    \A i, j \in 1..Len(likes) : likes[i].user = likes[j].user => i = j

\* the like lists that requests served one after another leave in the store
StoredLists == { l \in ListsUpTo(NumUsers) : DuplicateFree(l) }

NoDoc == NewPost(<<>>, <<>>, 0, <<>>)
Idle == [pc |-> "idle", user |-> 0, seen |-> 0, doc |-> NoDoc, mine |-> NoDoc,
         res |-> NoResponse]

InitRace ==
    /\ \E likes \in StoredLists :
          posts = (RacePost :>
                    [NewPost(<<"a">>, <<"c">>, 1, <<>>)
                       EXCEPT !.likes = likes, !.v = Len(likes)])
    /\ nextId = RacePost + 1
    /\ creator = (RacePost :> 1)
    /\ req = NoRequest
    /\ res = NoResponse
    /\ pre1 = NoList
    /\ pre2 = NoList
    /\ inflight = [r \in Requests |-> Idle]
    /\ saveOrder = <<>>
    /\ nodeEnv = "test"
    /\ NothingHandled
    /\ NobodyAtTheGate
    /\ OthersIdle

\* lines 227-236: the request of an authenticated user arrives, findById resolves
RaceFind(r, user) ==
    /\ inflight[r].pc = "idle"
    /\ inflight' = [inflight EXCEPT ![r] =
          IF Found(posts, RacePost)
          THEN [pc |-> "loaded", user |-> user, seen |-> Len(saveOrder),
                doc |-> posts[RacePost], mine |-> posts[RacePost],
                res |-> NoResponse]
          ELSE [pc |-> "done", user |-> user, seen |-> Len(saveOrder),
                doc |-> NoDoc, mine |-> NoDoc, res |-> PostNotFound]]
    /\ UNCHANGED <<apiVars, saveOrder, errVars, authVars, otherVars>>

\* lines 238-265: the toggle on the loaded document, save() and the response
RaceSave(r) ==
    /\ inflight[r].pc = "loaded"
    /\ LET out == ToggleLike(posts, RacePost, inflight[r].doc, inflight[r].user)
       IN  /\ posts' = out.db
           /\ inflight' = [inflight EXCEPT ![r] =
                 [@ EXCEPT !.pc = "done", !.mine = out.doc, !.res = out.res]]
    /\ saveOrder' = Append(saveOrder, r)
    /\ UNCHANGED <<nextId, creator, req, res, pre1, pre2, errVars, authVars, otherVars>>

NextRace ==
    \/ \E r \in Requests, user \in Users : RaceFind(r, user)
    \/ \E r \in Requests : RaceSave(r)

SpecRace == InitRace /\ [][NextRace]_vars

(* --------------------------- error normaliser ------------------------- *)
\* An error object is a function from the names of its properties to their
\* values.  A message is a sequence of pieces of text, so that join(', ')
\* is computed.

Undefined == "undefined"
Get(o, k) == IF k \in DOMAIN o THEN o[k] ELSE Undefined
NameIs(err, n) == Has(err, "name") /\ err.name = n
NumberIs(err, k, n) == Has(err, k) /\ err[k] = n

RECURSIVE Join(_)
\* Array.prototype.join(', ')
Join(msgs) ==
    IF msgs = <<>> THEN <<>>
    ELSE IF Len(msgs) = 1 THEN msgs[1]
    ELSE msgs[1] \o <<", ">> \o Join(Tail(msgs))

\* variant of FieldMessages: the last entry first
FieldMessagesReversed(err) ==
    [i \in 1..Len(err.errors) |-> err.errors[Len(err.errors) + 1 - i].message]

\* Object.values(err.errors).map(val => val.message)
FieldMessages(err) == [i \in 1..Len(err.errors) |-> err.errors[i].message]

Override(message, statusCode) == [message |-> message, statusCode |-> statusCode]

\* variant of ErrorAfter: an else-if chain, the first pattern that matches decides
ErrorAfterElseIf(err, n) ==
    IF NameIs(err, "CastError") THEN Override(<<"Resource not found">>, 404)
    ELSE IF NumberIs(err, "code", 11000)
    THEN Override(<<"Duplicate field value entered">>, 400)
    ELSE IF NameIs(err, "ValidationError") THEN Override(Join(FieldMessages(err)), 400)
    ELSE IF NameIs(err, "JsonWebTokenError") THEN Override(<<"Invalid token">>, 401)
    ELSE IF NameIs(err, "TokenExpiredError") THEN Override(<<"Token expired">>, 401)
    ELSE IF NumberIs(err, "status", 429)
    THEN Override(<<"Too many requests, please try again later">>, 429)
    ELSE IF NameIs(err, "MongoNetworkError")
            \/ NameIs(err, "MongooseServerSelectionError")
    THEN Override(<<"Database connection error">>, 503)
    ELSE [k \in DOMAIN err \ {"stack"} |-> err[k]]

\* lines 5-80: error, after the copy of err and each if statement in turn
ErrorAfter(err, n) ==
    LET e0 == [k \in DOMAIN err \ {"stack"} |-> err[k]]
        e1 == IF NameIs(err, "CastError")
              THEN Override(<<"Resource not found">>, 404) ELSE e0
        e2 == IF NumberIs(err, "code", 11000)
              THEN Override(<<"Duplicate field value entered">>, 400) ELSE e1
        e3 == IF NameIs(err, "ValidationError")
              THEN Override(Join(FieldMessages(err)), 400) ELSE e2
        e4 == IF NameIs(err, "JsonWebTokenError")
              THEN Override(<<"Invalid token">>, 401) ELSE e3
        e5 == IF NameIs(err, "TokenExpiredError")
              THEN Override(<<"Token expired">>, 401) ELSE e4
        e6 == IF NumberIs(err, "status", 429)
              THEN Override(<<"Too many requests, please try again later">>, 429)
              ELSE e5
        e7 == IF NameIs(err, "MongoNetworkError")
                 \/ NameIs(err, "MongooseServerSelectionError")
              THEN Override(<<"Database connection error">>, 503) ELSE e6
    IN  CASE n = 0 -> e0 [] n = 1 -> e1 [] n = 2 -> e2 [] n = 3 -> e3
          [] n = 4 -> e4 [] n = 5 -> e5 [] n = 6 -> e6 [] OTHER -> e7

\* x || y for a message and for a status code
MessageOr(error, default) ==
    IF Has(error, "message") /\ Truthy(error.message) THEN error.message ELSE default
\* variant of StatusOr: the status code of the error is ignored
StatusOrDefault(error, default) == default
StatusOr(error, default) ==
    IF Has(error, "statusCode") /\ error.statusCode # 0 THEN error.statusCode
    ELSE default

Now == "new Date().toISOString()"

\* variant of ErrorHandler: stack and originalError are sent unless NODE_ENV is test
ErrorHandlerDebugUnlessTest(err, headers, env) ==
    LET error == ErrorAfter(err, 7)
    IN  [status |-> StatusOr(error, 500),
         json |-> [status |-> "error",
                   message |-> MessageOr(error, <<"Server Error">>)]
                  @@ (IF env # "test"
                      THEN [stack |-> Get(err, "stack"), originalError |-> err]
                      ELSE NoData)]

\* errorHandler(err, req, res, next): the arguments of res.status() and res.json()
ErrorHandler(err, headers, env) ==
    LET error == ErrorAfter(err, 7)
        common == [status |-> "error",
                   message |-> MessageOr(error, <<"Server Error">>),
                   timestamp |-> Now,
                   requestId |-> IF Has(headers, "x-request-id")
                                 THEN headers["x-request-id"] ELSE "unknown"]
        debug == [stack |-> Get(err, "stack"), originalError |-> err]
    IN  [status |-> StatusOr(error, 500),
         json |-> IF env = "development"
                  THEN [k \in DOMAIN common \cup DOMAIN debug |->
                          IF k \in DOMAIN debug THEN debug[k] ELSE common[k]]
                  ELSE common]

\* variant of ErrorHandlerEffects: the error is also passed on to next()
ErrorHandlerPassesOn(err) ==
    [statusCalls |-> 1, jsonCalls |-> 1, nextCalls |-> 1, err |-> err]

\* errorHandler(err, req, res, next): what the call does besides logging.
\* err is only read (line 5 copies it, line 6 writes to the copy), next is
\* not referenced, res.status() and res.json() are called on line 101 only.
ErrorHandlerEffects(err) ==
    [statusCalls |-> 1, jsonCalls |-> 1, nextCalls |-> 0, err |-> err]

(* -------------------------------- logger ------------------------------ *)

LOG_LEVELS == [ERROR |-> 0, WARN |-> 1, INFO |-> 2, DEBUG |-> 3]

\* variant of currentLevel: production logs nothing at all
currentLevelQuiet(env) ==
    IF env = "production" THEN LOG_LEVELS.ERROR - 1 ELSE LOG_LEVELS.DEBUG

currentLevel(env) ==
    IF env = "production" THEN LOG_LEVELS.INFO ELSE LOG_LEVELS.DEBUG

\* a call logger.error / warn / info / debug (message, meta)
LogCall(levelName, message, meta) ==
    [level |-> levelName, message |-> message, meta |-> meta]

\* _log, line 36: if (level > currentLevel) return
Passes(call, env) == LOG_LEVELS[call.level] <= currentLevel(env)

\* _writeToFile: the files the line of an entry is appended to
LogFiles(levelName) ==
    IF levelName = "ERROR" THEN {"combined.log", "error.log"} ELSE {"combined.log"}

\* the logger after a sequence of calls: the entries that pass the level
\* filter are written to the console and an fs.appendFile() is started for
\* each entry and each of its files
LoggerLog(log, calls, env) ==
    LET kept == SelectSeq(calls, LAMBDA c : Passes(c, env))
        all == log.logged \o kept
        started == { [file |-> f, n |-> n] :
                        f \in {"combined.log", "error.log"},
                        n \in (Len(log.logged) + 1)..Len(all) }
        new == { op \in started : op.file \in LogFiles(all[op.n].level) }
    IN  [logged |-> all,
         appends |-> [op \in DOMAIN log.appends \cup new |->
                        IF op \in DOMAIN log.appends THEN log.appends[op]
                        ELSE "pending"]]

\* the logger calls of errorHandler in the order of its lines; of the meta
\* objects only the error's message and stack are kept
LogCalls(err) ==
    LET When(cond, call) == IF cond THEN <<call>> ELSE <<>>
    IN  << LogCall("ERROR", "Error Occurred:",
                   [error |-> Get(err, "message"), stack |-> Get(err, "stack")]),
           LogCall("INFO", "Memory Usage:", NoData) >>
        \o When(NameIs(err, "CastError"), LogCall("WARN", "Cast Error:", NoData))
        \o When(NumberIs(err, "code", 11000),
                LogCall("WARN", "Duplicate Key Error:", NoData))
        \o When(NameIs(err, "ValidationError"),
                LogCall("WARN", "Validation Error:", NoData))
        \o When(NameIs(err, "JsonWebTokenError"), LogCall("WARN", "JWT Error:", NoData))
        \o When(NameIs(err, "TokenExpiredError"), LogCall("WARN", "JWT Error:", NoData))
        \o When(NumberIs(err, "status", 429),
                LogCall("WARN", "Rate Limit Exceeded:", NoData))
        \o When(NameIs(err, "MongoNetworkError")
                  \/ NameIs(err, "MongooseServerSelectionError"),
                LogCall("ERROR", "Database Connection Error:",
                        [error |-> Get(err, "message")]))
        \o << LogCall("DEBUG", "Error Response Sent:", NoData) >>

\* the errors that reach the handler
ErrorNames == {"Error", "CastError", "ValidationError", "JsonWebTokenError",
               "TokenExpiredError", "MongoNetworkError",
               "MongooseServerSelectionError"}
FieldErrors == { <<[message |-> <<"Title is required">>]>>,
                 <<[message |-> <<"Title is required">>],
                   [message |-> <<"Content is required">>]>> }

ErrorWith(D, name, message, code, status, statusCode, errors) ==
    [k \in D |->
       CASE k = "name" -> name [] k = "message" -> message [] k = "code" -> code
         [] k = "status" -> status [] k = "statusCode" -> statusCode
         [] k = "errors" -> errors [] OTHER -> "Error: at handler"]

Errors ==
    { ErrorWith(D \cup {"name", "stack"} \cup
                  (IF name = "ValidationError" THEN {"errors"} ELSE {}),
                name, message, code, status, statusCode, errors) :
        D \in SUBSET {"message", "code", "status", "statusCode"},
        name \in ErrorNames, message \in { <<>>, <<"boom">> },
        code \in {11000}, status \in {429}, statusCode \in {418},
        errors \in FieldErrors }

Headers == { [k \in D |-> "rid-1"] : D \in SUBSET {"x-request-id"} }
Environments == {"development", "test", "production"}

InitErr ==
    /\ posts = NoPosts
    /\ nextId = 1
    /\ creator = [i \in {} |-> 0]
    /\ req = NoRequest
    /\ res = NoResponse
    /\ pre1 = NoList
    /\ pre2 = NoList
    /\ inflight = NoInflight
    /\ saveOrder = <<>>
    /\ nodeEnv \in Environments
    /\ NothingHandled
    /\ NobodyAtTheGate
    /\ OthersIdle

\* the number of errorHandler calls so far
Handled ==
    Cardinality({ n \in DOMAIN logged : logged[n].message = "Error Occurred:" })

\* a route passes err to next(): express calls errorHandler, which runs to
\* its end without an await: the logger calls and the response
HandleError(err, headers) ==
    /\ Handled < MaxErrors
    /\ thrown' = [err |-> err, headers |-> headers]
    /\ reply' = ErrorHandler(err, headers, nodeEnv)
    /\ effects' = ErrorHandlerEffects(err)
    /\ LET log == LoggerLog([logged |-> logged, appends |-> appends],
                            LogCalls(err), nodeEnv)
       IN  logged' = log.logged /\ appends' = log.appends
    /\ UNCHANGED <<apiVars, raceVars, nodeEnv, authVars, otherVars>>

NextErr == \E err \in Errors, headers \in Headers : HandleError(err, headers)

SpecErr == InitErr /\ [][NextErr]_vars

(* ------------------------ the log files on disk ----------------------- *)
\* fs.appendFile() is asynchronous: its callback (part_003 lines 69-71 and
\* 75-77) runs in a later turn of the event loop, with err set when the
\* append failed; the failure is written to the console and nothing else.

LogErrors ==
    { err \in Errors :
        /\ DOMAIN err = {"name", "stack", "message"}
        /\ err.name \in {"Error", "CastError", "MongoNetworkError"}
        /\ err.message = <<"boom">> }

AppendFileDone(op, ok) ==
    /\ appends[op] = "pending"
    /\ appends' = [appends EXCEPT ![op] = IF ok THEN "written" ELSE "failed"]
    /\ UNCHANGED <<apiVars, raceVars, authVars, otherVars, nodeEnv, thrown, reply, effects, logged>>

NextLog ==
    \/ \E err \in LogErrors, headers \in Headers : HandleError(err, headers)
    \/ \E op \in DOMAIN appends, ok \in BOOLEAN : AppendFileDone(op, ok)

SpecLog == InitErr /\ [][NextLog]_vars

(* ============================ the claims ============================== *)

Likes(id) == posts[id].likes

SuccessfulToggle == req.op = "like" /\ res.status = 200

\* C1: after any sequence of like requests, each one running to completion
\* before the next starts, no post's like list holds two entries of one user.
NoDuplicateLikes == \A id \in DOMAIN posts : DuplicateFree(Likes(id))

\* C1 witness: a like list of two users from which a user was just removed
\* after having been in a list of two
UnlikedAmongTwo ==
    /\ SuccessfulToggle /\ ~res.data.liked
    /\ Len(pre1) = 2 /\ Len(Likes(req.id)) = 1

\* C4 as stated: two consecutive toggles of one user on one post leave the
\* like list equal to the list before the first of them.
ToggleTwiceRestoresList == pre2 # NoList => Likes(req.id) = pre2

Without(likes, user) == SelectSeq(likes, LAMBDA like : like.user # user)
Liked(likes, user) == \E i \in 1..Len(likes) : likes[i].user = user
UsersOf(likes) == { likes[i].user : i \in 1..Len(likes) }

\* C4 amended: two consecutive toggles of one user on one post leave the
\* set of users who like the post as it was.  A user who was absent is
\* appended and removed again, which restores the list; a user who was
\* present is removed and then appended as a new entry at the end of the
\* list, so the order of the users is restored only when that user's entry
\* was the last one.
ToggleTwiceRestoresUsers ==
    pre2 # NoList =>
        /\ UsersOf(Likes(req.id)) = UsersOf(pre2)
        /\ IF Liked(pre2, req.user)
           THEN /\ pre1 = Without(pre2, req.user)
                /\ Likes(req.id) = Append(pre1, [user |-> req.user])
           ELSE /\ pre1 = Append(pre2, [user |-> req.user])
                /\ Likes(req.id) = pre2

\* C4 witness: the user who toggled twice was the first of two likers
ToggledTwiceFromFront ==
    /\ pre2 # NoList /\ Len(pre2) = 2 /\ pre2[1].user = req.user
    /\ Len(Likes(req.id)) = 2

\* C5: a successful like toggle reports likeCount = the length of the like
\* list it saved, and liked = whether the requesting user is in that list.
LikeResponseMatchesList ==
    SuccessfulToggle =>
        /\ res.data.likeCount = Len(Likes(req.id))
        /\ res.data.liked = Liked(Likes(req.id), req.user)

\* C5 witness: an unlike that leaves another user's like in the list
UnlikeReportsOne ==
    SuccessfulToggle /\ ~res.data.liked /\ res.data.likeCount = 1

\* C7: the author of a stored post is the user whose request created it.
AuthorIsCreator == \A id \in DOMAIN posts : posts[id].author = creator[id]

\* C7 witness: a post that was updated by its author, liked and commented
\* by the other users
ChangedPostKeepsAuthor ==
    \E id \in DOMAIN posts :
        /\ posts[id].title = <<"b">> /\ req.op = "update" /\ res.status = 200
        /\ \E i \in 1..Len(Likes(id)) : Likes(id)[i].user # posts[id].author
        /\ \E i \in 1..Len(posts[id].comments) :
               posts[id].comments[i].user # posts[id].author

Denied(status, message) == res'.status = status /\ res'.message = message
NotOwner ==
    /\ req'.user \in Users
    /\ Found(posts, req'.id) /\ posts[req'.id].author # req'.user
CommentWith(b) == req'.op = "comment" /\ Comment(req'.user, req'.id, b)

\* C6 as stated: every PUT or DELETE by a user who is not the post's author
\* is answered 403 with the route's message and leaves the collection as it was.
NonOwnerAlways403 ==
    [][/\ req'.op = "update" /\ NotOwner =>
                Denied(403, "Not authorized to update this post") /\ posts' = posts
       /\ req'.op = "delete" /\ NotOwner =>
                Denied(403, "Not authorized to delete this post") /\ posts' = posts]_vars

\* C6 amended: a DELETE, or a PUT whose body passes the validation chain,
\* by a user who is not the post's author is answered 403 with the route's
\* message; a PUT whose body fails validation is answered 400 'Validation
\* failed' whoever sends it; in all these cases the collection is unchanged.
NonOwnerNeverWrites ==
    [][/\ req'.op = "update" /\ NotOwner =>
                /\ posts' = posts
                /\ IF req'.valid
                   THEN Denied(403, "Not authorized to update this post")
                   ELSE Denied(400, "Validation failed")
       /\ req'.op = "delete" /\ NotOwner =>
                Denied(403, "Not authorized to delete this post") /\ posts' = posts]_vars

\* C6 witness: a changed post (title b, one comment) whose update by the
\* other user was just refused
RefusedUpdateOfChangedPost ==
    /\ req.op = "update" /\ res.status = 403 /\ Found(posts, req.id)
    /\ posts[req.id].title = <<"b">> /\ Len(posts[req.id].comments) = 1

OnPostPath ==
    req'.user \in Users /\ req'.op \in {"update", "delete", "like", "comment"}
Absent == ~Found(posts, req'.id)

\* C8 as stated: on the four paths an absent post is answered 404 'Post not
\* found' with no write; 403 is answered only for a post that exists, and
\* update and delete write only for the post's author.
AbsentAlways404 ==
    [][OnPostPath =>
         /\ Absent => Denied(404, "Post not found") /\ posts' = posts
         /\ res'.status = 403 => ~Absent
         /\ req'.op \in {"update", "delete"} /\ posts' # posts =>
                ~Absent /\ posts[req'.id].author = req'.user]_vars

\* C8 amended: the same, for a request whose body passed the validation
\* chain of its route (update, comment); a body that fails it is answered
\* 400 'Validation failed' before the post is loaded, with no write.
AbsentValid404 ==
    [][OnPostPath =>
         /\ Absent =>
               /\ posts' = posts
               /\ IF req'.valid THEN Denied(404, "Post not found")
                  ELSE /\ req'.op \in {"update", "comment"}
                       /\ Denied(400, "Validation failed")
         /\ res'.status = 403 => ~Absent
         /\ req'.op \in {"update", "delete"} /\ posts' # posts =>
                ~Absent /\ posts[req'.id].author = req'.user]_vars

\* C8 witness: a like of a post that was deleted, answered 404
LikeOfDeleted404 ==
    req.op = "like" /\ res.status = 404 /\ nextId > req.id

Created(b) == req'.op = "comment" /\ res'.status = 201 /\ CommentWith(b)

\* C9 as stated: a successful comment request appends exactly one comment,
\* of the requesting user and with the submitted content, behind the
\* comments there were, and returns the new length as commentCount.
CommentAppendsSubmitted ==
    [][\A b \in CommentBodies : Created(b) =>
          /\ posts'[req'.id].comments =
                Append(posts[req'.id].comments,
                       [user |-> req'.user, content |-> b.content])
          /\ res'.data.commentCount = Len(posts[req'.id].comments) + 1]_vars

\* C9 amended: the content of the appended comment is the submitted content
\* with the whitespace at both ends removed (the route's trim() sanitizer).
CommentAppendsTrimmed ==
    [][\A b \in CommentBodies : Created(b) =>
          /\ posts'[req'.id].comments =
                Append(posts[req'.id].comments,
                       [user |-> req'.user, content |-> Trim(b.content)])
          /\ res'.data.comment = [user |-> req'.user, content |-> Trim(b.content)]
          /\ res'.data.commentCount = Len(posts[req'.id].comments) + 1]_vars

\* C9 witness: a second comment, sent as ' y', was appended behind the first
SecondCommentAppended ==
    /\ req.op = "comment" /\ res.status = 201 /\ res.data.commentCount = 2
    /\ posts[req.id].comments[1].content = <<"x">>
    /\ posts[req.id].comments[2] = [user |-> req.user, content |-> <<"y">>]

(* ------------------- claims on requests that interleave --------------- *)

\* C2: when like requests on one post interleave their findById and save()
\* steps, the stored like list still never holds two entries of one user.
RaceKeepsLikesDuplicateFree ==
    \A id \in DOMAIN posts : DuplicateFree(posts[id].likes)

\* all requests read the post before any of them saved, and all are done
AllRaced == \A r \in Requests : inflight[r].pc = "done" /\ inflight[r].seen = 0
LastSaver == saveOrder[Len(saveOrder)]

Adds(r) == ~Liked(inflight[r].doc.likes, inflight[r].user)

\* the stored list after the first k saves of a race
RECURSIVE AfterSaves(_)
AfterSaves(k) ==
    LET r == saveOrder[k]
    IN  IF k = 1 THEN inflight[r].mine.likes
        ELSE IF Adds(r) THEN Append(AfterSaves(k - 1), [user |-> inflight[r].user])
        ELSE AfterSaves(k - 1)

Matches(err, i) ==
    CASE i = 1 -> NameIs(err, "CastError")
      [] i = 2 -> NumberIs(err, "code", 11000)
      [] i = 3 -> NameIs(err, "ValidationError")
      [] i = 4 -> NameIs(err, "JsonWebTokenError")
      [] i = 5 -> NameIs(err, "TokenExpiredError")
      [] i = 6 -> NumberIs(err, "status", 429)
      [] OTHER -> NameIs(err, "MongoNetworkError")
                  \/ NameIs(err, "MongooseServerSelectionError")

PatternStatus(i) == <<404, 400, 400, 401, 401, 429, 503>>[i]

PatternMessage(err, i) ==
    CASE i = 1 -> <<"Resource not found">>
      [] i = 2 -> <<"Duplicate field value entered">>
      [] i = 3 -> Join(FieldMessages(err))
      [] i = 4 -> <<"Invalid token">>
      [] i = 5 -> <<"Token expired">>
      [] i = 6 -> <<"Too many requests, please try again later">>
      [] OTHER -> <<"Database connection error">>

Matched(err) == { i \in 1..7 : Matches(err, i) }
First(S) == CHOOSE i \in S : \A j \in S : i <= j
Last(S) == CHOOSE i \in S : \A j \in S : j <= i
SeveralMatch == thrown # NoError /\ Cardinality(Matched(thrown.err)) >= 2

RepliedAs(err, i) ==
    /\ reply.status = PatternStatus(i)
    /\ reply.json.message = PatternMessage(err, i)

\* C10 as stated: when an error matches more than one pattern, the status
\* and the message of the response are those of the first matching pattern
\* in the order CastError, code 11000, ValidationError, JsonWebTokenError,
\* TokenExpiredError, status 429, MongoNetworkError /
\* MongooseServerSelectionError.
FirstMatchDecides ==
    SeveralMatch => RepliedAs(thrown.err, First(Matched(thrown.err)))

\* C10 amended: the precedence is fixed the other way round: the status and
\* the message are those of the last matching pattern in that order.
LastMatchDecides ==
    SeveralMatch => RepliedAs(thrown.err, Last(Matched(thrown.err)))

\* C10 witness: a CastError that also carries code 11000 and status 429
CastErrorRepliedAsRateLimit ==
    /\ thrown # NoError /\ Matched(thrown.err) = {1, 2, 6}
    /\ reply.status = 429

WasHandled == thrown # NoError

\* the messages of the entries joined by ', ' in the order of the entries
RECURSIVE MessagesJoined(_)
MessagesJoined(errors) ==
    IF Len(errors) = 1 THEN errors[1].message
    ELSE errors[1].message \o <<", ">> \o MessagesJoined(Tail(errors))

\* C11: an error that matches exactly one pattern is answered with the
\* status and the message of that pattern (a ValidationError with 400 and
\* the messages of its entries joined by ', ' in their order), and the body
\* has status 'error'.
SinglePatternReply ==
    WasHandled /\ Cardinality(Matched(thrown.err)) = 1 =>
        LET i == First(Matched(thrown.err))
        IN  /\ reply.json.status = "error"
            /\ IF i = 3
               THEN /\ reply.status = 400
                    /\ reply.json.message = MessagesJoined(thrown.err.errors)
               ELSE RepliedAs(thrown.err, i)

\* C11 witness: a ValidationError with two entries and nothing else
TwoMessagesJoined ==
    /\ WasHandled /\ Matched(thrown.err) = {3}
    /\ reply.status = 400
    /\ reply.json.message = <<"Title is required", ", ", "Content is required">>

\* C12: an error that matches no pattern is answered with its own statusCode
\* when it has one and 500 otherwise, and with its own message when that is
\* not empty and 'Server Error' otherwise.
UnmatchedKeepsOwn ==
    WasHandled /\ Matched(thrown.err) = {} =>
        /\ reply.status = IF Has(thrown.err, "statusCode")
                          THEN thrown.err.statusCode ELSE 500
        /\ reply.json.message =
              IF Has(thrown.err, "message") /\ thrown.err.message # <<>>
              THEN thrown.err.message ELSE <<"Server Error">>

\* C12 witness: an unmatched error with a statusCode and an empty message
TeapotWithoutMessage ==
    /\ WasHandled /\ Matched(thrown.err) = {}
    /\ Has(thrown.err, "message") /\ thrown.err.message = <<>>
    /\ reply.status = 418 /\ reply.json.message = <<"Server Error">>

\* C13: in production the body has neither a stack nor an originalError
\* field; a body with a stack field is never sent in production.
NoStackInProduction ==
    WasHandled =>
        /\ nodeEnv = "production" =>
              DOMAIN reply.json \cap {"stack", "originalError"} = {}
        /\ "stack" \in DOMAIN reply.json => nodeEnv # "production"

\* C13 witness: a database error with a stack, answered in production
ProductionDatabaseError ==
    /\ WasHandled /\ nodeEnv = "production" /\ Has(thrown.err, "stack")
    /\ reply.status = 503 /\ "message" \in DOMAIN reply.json

\* C15 as stated: outside development the body passed to res.json has exactly
\* the fields status and message, in development exactly status, message and
\* stack.
EnvelopeIsStatusAndMessage ==
    WasHandled =>
        DOMAIN reply.json = IF nodeEnv = "development"
                            THEN {"status", "message", "stack"}
                            ELSE {"status", "message"}

ErrorEntry(err) ==
    LogCall("ERROR", "Error Occurred:",
            [error |-> Get(err, "message"), stack |-> Get(err, "stack")])
FilesOfErrors == {"combined.log", "error.log"}
AppendOf(f, n) == [file |-> f, n |-> n]

\* C14 as stated: for every error and every NODE_ENV, when the response has
\* been sent an ERROR entry with the error's message and stack has been
\* appended to combined.log and to error.log.
ErrorEntryOnDiskAtReply ==
    WasHandled =>
        \E n \in DOMAIN logged :
            /\ logged[n] = ErrorEntry(thrown.err)
            /\ \A f \in FilesOfErrors :
                  AppendOf(f, n) \in DOMAIN appends /\ appends[AppendOf(f, n)] = "written"

\* C14 amended: for every error and every NODE_ENV the handler emits the
\* ERROR entry (the level filter lets it pass) and starts its append to
\* combined.log and to error.log before it sends the response; when the
\* response is sent both appends are still pending.
ErrorEntryPendingAtReply ==
    [][thrown' # thrown =>
          \E n \in DOMAIN logged' \ DOMAIN logged :
              /\ logged'[n] = ErrorEntry(thrown'.err)
              /\ \A f \in FilesOfErrors :
                    /\ AppendOf(f, n) \in DOMAIN appends'
                    /\ appends'[AppendOf(f, n)] = "pending"]_vars

\* C14 witness: in production the entry reached combined.log and its append
\* to error.log failed
ErrorLogAppendFailed ==
    /\ WasHandled /\ nodeEnv = "production"
    /\ \E n \in DOMAIN logged :
          /\ logged[n] = ErrorEntry(thrown.err)
          /\ appends[AppendOf("combined.log", n)] = "written"
          /\ appends[AppendOf("error.log", n)] = "failed"

(* ------------------------ claims on the auth gate --------------------- *)

GateCalled == gate # NoGate
Carries(g) == g.header.present /\ g.header.bearer
GoodToken(g) == Carries(g) /\ g.header.token.signed /\ ~g.header.token.expired
UserFound(g) == ~g.lookupFails /\ g.header.token.userId \in accounts
Rejected(g, message) ==
    ~g.next /\ g.res.status = 401 /\ g.res.message = message

GateContinuesOrRejects ==
    GateCalled =>
        /\ gate.next <=> GoodToken(gate) /\ UserFound(gate)
        /\ gate.next => gate.res = NoResponse /\ gate.user # NoData
        /\ ~gate.next => gate.res.status = 401 /\ gate.user = NoData

\* C18 witness: a valid token of an existing user, rejected because the
\* lookup failed
LookupFailureRejected ==
    /\ GateCalled /\ GoodToken(gate) /\ gate.header.token.userId \in accounts
    /\ gate.lookupFails /\ ~gate.next /\ gate.res.status = 401

BadSignature(g) == Carries(g) /\ ~g.header.token.signed /\ ~g.header.token.expired
ExpiredToken(g) == Carries(g) /\ g.header.token.signed /\ g.header.token.expired

RejectedChangesNothing ==
    [][req'.user = NobodyId /\ req'.op \in PrivateRoutes =>
          res'.status = 401 /\ posts' = posts]_vars

\* C20 witness: a comment without a valid token on a post that has a like
\* and a comment
RejectedCommentOnLivePost ==
    /\ req.user = NobodyId /\ req.op = "comment" /\ res.status = 401
    /\ Found(posts, req.id)
    /\ Len(posts[req.id].likes) = 1 /\ Len(posts[req.id].comments) = 1

(* --------------------------- claims on updates ------------------------ *)

UpdatedWith(b) ==
    req'.op = "update" /\ res'.status = 200 /\ Update(req'.user, req'.id, b)
OthersKept(id) ==
    DOMAIN posts' = DOMAIN posts /\ \A i \in DOMAIN posts \ {id} : posts'[i] = posts[i]

MaxLen == 4
MaxLimit == 3
MaxPage == 5

Items == {"p", "q"}
Arrays == UNION {[1..n -> Items] : n \in 0..MaxLen}
Limits == 1..MaxLimit

Min(a, b) == IF a < b THEN a ELSE b
Max(a, b) == IF a > b THEN a ELSE b

\* Array.prototype.slice(start, end): a negative index counts from the end,
\* both are clamped to the array; the elements from index start (0-based)
\* up to, not including, index end
RelativeIndex(len, i) == IF i < 0 THEN Max(len + i, 0) ELSE Min(i, len)
Slice(array, start, end) ==
    SubSeq(array, RelativeIndex(Len(array), start) + 1, RelativeIndex(Len(array), end))

\* Math.ceil(a / b) for a >= 0 and b >= 1
MathCeil(a, b) == IF a % b = 0 THEN a \div b ELSE (a \div b) + 1

\* variant of paginate: a page whose end is the end of the array has a next one
paginateNextAtEnd(array, page, limit) ==
    LET startIndex == (page - 1) * limit
        endIndex == page * limit
    IN  [data |-> Slice(array, startIndex, endIndex),
         pagination |->
            [page |-> page, limit |-> limit, total |-> Len(array),
             pages |-> MathCeil(Len(array), limit),
             hasNext |-> endIndex <= Len(array),
             hasPrev |-> startIndex > 0]]

paginate(array, page, limit) ==
    LET startIndex == (page - 1) * limit
        endIndex == page * limit
    IN  [data |-> Slice(array, startIndex, endIndex),
         pagination |->
            [page |-> page, limit |-> limit, total |-> Len(array),
             pages |-> MathCeil(Len(array), limit),
             hasNext |-> endIndex < Len(array),
             hasPrev |-> startIndex > 0]]

\* a caller holds an array and a limit and asks for page 1, 2, ... in turn,
\* also for pages past the last one
InitPaging ==
    /\ posts = NoPosts
    /\ nextId = 1
    /\ creator = NoData
    /\ req = NoRequest
    /\ res = NoResponse
    /\ pre1 = NoList
    /\ pre2 = NoList
    /\ inflight = NoInflight
    /\ saveOrder = <<>>
    /\ nodeEnv = "test"
    /\ NothingHandled
    /\ NobodyAtTheGate
    /\ \E array \in Arrays, limit \in Limits :
          paging = [NoPaging EXCEPT !.array = array, !.limit = limit]
    /\ pipe = NoPipe
    /\ tracker = NoTracker
    /\ proc = NoProc
    /\ boundary = NoBoundary
    /\ site = NoSite

Paginate ==
    /\ paging.page < MaxPage
    /\ LET out == paginate(paging.array, paging.page + 1, paging.limit)
       IN  paging' = [paging EXCEPT !.page = @ + 1, !.out = out,
                                    !.walked = @ \o out.data]
    /\ UNCHANGED <<apiVars, raceVars, errVars, authVars, pipe, tracker, proc, boundary, site>>

NextPaging == Paginate

SpecPaging == InitPaging /\ [][NextPaging]_vars

(* --------------------------- claims on paginate ----------------------- *)

\* the number of pages: the least k with k * limit >= the length
LeastCover(n, limit) == CHOOSE k \in 0..n : k * limit >= n /\ (k = 0 \/ (k - 1) * limit < n)

\* C25: for every limit >= 1, paginate partitions the array: pages is the
\* ceiling of length / limit, the data of pages 1..pages concatenated is the
\* array, hasNext holds exactly on the pages before the last and hasPrev
\* exactly on the pages after the first; of an empty array data is empty
\* and pages is 0.
PaginatePartitions ==
    paging.page >= 1 =>
       LET n == Len(paging.array)
           last == LeastCover(n, paging.limit)
           info == paging.out.pagination
       IN  /\ info.pages = last
           /\ info.total = n
           /\ paging.page <= last =>
                 /\ info.hasNext <=> paging.page < last
                 /\ info.hasPrev <=> paging.page > 1
                 /\ paging.walked = SubSeq(paging.array, 1, Min(paging.page * paging.limit, n))
                 /\ paging.out.data # <<>>
           /\ paging.page >= last => paging.walked = paging.array
           /\ n = 0 => paging.out.data = <<>> /\ info.pages = 0

\* C25 witness: the second, last and shorter page of four elements by three
LastPageShorter ==
    /\ paging.array = <<"p", "q", "q", "p">> /\ paging.limit = 3 /\ paging.page = 2
    /\ paging.out.data = <<"p">> /\ paging.walked = paging.array
    /\ paging.out.pagination.pages = 2
    /\ ~paging.out.pagination.hasNext /\ paging.out.pagination.hasPrev

(* ----------------- performanceMonitoring and requestLogger ------------ *)
\* Both middleware replace res.end by a function that logs and then calls
\* the res.end they found.  A request runs through the two, installed in
\* either order, and reaches a handler that ends the response.

RequestIds == {"1-a", "2-b"}
Orders == {<<"performanceMonitoring", "requestLogger">>,
           <<"requestLogger", "performanceMonitoring">>}
EndArgs == {<<>>, <<"chunk">>, <<"chunk", "utf8">>}
StatusCodes == {200, 404, 500}
SlowAfter == 1000
Durations == {SlowAfter, SlowAfter + 1}

LoggerCall(by, level, message) ==
    [kind |-> "log", by |-> by, level |-> level, message |-> message]
EndCall(args, header) == [kind |-> "end", args |-> args, header |-> header]

\* variant of performanceMonitoring: the header is left to the end of the response
performanceMonitoringNoHeader(p, id) ==
    [p EXCEPT !.requestId = id,
              !.end = Append(@, "performanceMonitoring")]

\* performanceMonitoring.js lines 4-13, 57: the request id, the response
\* header, the replacement of res.end
performanceMonitoring(p, id) ==
    [p EXCEPT !.requestId = id,
              !.header = id,
              !.end = Append(@, "performanceMonitoring")]

\* lines 14-55: the replacement logs and calls the res.end it replaced
performanceEnd(p, duration, heapHigh) ==
    LET metrics == IF duration > SlowAfter
                   THEN LoggerCall("performanceMonitoring", "warn", "Slow Request Detected:")
                   ELSE LoggerCall("performanceMonitoring", "debug", "Performance Metrics:")
        memory == IF heapHigh
                  THEN <<LoggerCall("performanceMonitoring", "warn",
                                    "High Memory Usage Detected:")>>
                  ELSE <<>>
    IN  [p EXCEPT !.events = (@ \o <<metrics>>) \o memory,
                  !.level = @ - 1]

\* part_003 lines 124-138, 155: the request is logged, res.end replaced
requestLogger(p) ==
    [p EXCEPT !.events = Append(@, LoggerCall("requestLogger", "info", "Incoming Request:")),
              !.end = Append(@, "requestLogger")]

\* variant of requestLoggerEnd: the replaced res.end is called without arguments
requestLoggerEndNoArgs(p) ==
    [p EXCEPT !.events = @ \o <<LoggerCall("requestLogger", "info", "Performance:"),
                                LoggerCall("requestLogger", "info", "Request Completed:")>>,
              !.args = <<>>,
              !.level = @ - 1]

\* part_003 lines 139-153: timer.end() logs the duration, the replacement
\* logs the response and calls the res.end it replaced
requestLoggerEnd(p) ==
    [p EXCEPT !.events = @ \o <<LoggerCall("requestLogger", "info", "Performance:"),
                                LoggerCall("requestLogger", "info", "Request Completed:")>>,
              !.level = @ - 1]

InitPipe ==
    /\ posts = NoPosts
    /\ nextId = 1
    /\ creator = NoData
    /\ req = NoRequest
    /\ res = NoResponse
    /\ pre1 = NoList
    /\ pre2 = NoList
    /\ inflight = NoInflight
    /\ saveOrder = <<>>
    /\ nodeEnv = "test"
    /\ NothingHandled
    /\ NobodyAtTheGate
    /\ paging = NoPaging
    /\ tracker = NoTracker
    /\ proc = NoProc
    /\ boundary = NoBoundary
    /\ site = NoSite
    /\ \E order \in Orders : pipe = [NoPipe EXCEPT !.chain = order]

PipeStep(p) ==
    /\ pipe' = p
    /\ UNCHANGED <<apiVars, raceVars, errVars, authVars, paging, tracker, proc, boundary, site>>

\* the next middleware of the chain runs and calls next()
RunPerformanceMonitoring(id) ==
    /\ pipe.pc = "chain" /\ pipe.chain # <<>>
    /\ Head(pipe.chain) = "performanceMonitoring"
    /\ PipeStep([performanceMonitoring(pipe, id) EXCEPT !.chain = Tail(@)])

RunRequestLogger ==
    /\ pipe.pc = "chain" /\ pipe.chain # <<>>
    /\ Head(pipe.chain) = "requestLogger"
    /\ PipeStep([requestLogger(pipe) EXCEPT !.chain = Tail(@)])

\* the handler past the middleware sets the status and calls res.end
Respond(statusCode, args) ==
    /\ pipe.pc = "chain" /\ pipe.chain = <<>>
    /\ PipeStep([pipe EXCEPT !.pc = "ending", !.statusCode = statusCode,
                             !.called = args, !.args = args,
                             !.level = Len(pipe.end)])

\* the replacement res.end at the current level runs
EndInPerformanceMonitoring(duration, heapHigh) ==
    /\ pipe.pc = "ending" /\ pipe.level > 0
    /\ pipe.end[pipe.level] = "performanceMonitoring"
    /\ PipeStep(performanceEnd(pipe, duration, heapHigh))

EndInRequestLogger ==
    /\ pipe.pc = "ending" /\ pipe.level > 0
    /\ pipe.end[pipe.level] = "requestLogger"
    /\ PipeStep(requestLoggerEnd(pipe))

\* the original res.end sends the response with the headers set so far
EndOriginal ==
    /\ pipe.pc = "ending" /\ pipe.level = 0
    /\ PipeStep([pipe EXCEPT !.pc = "done",
                             !.events = Append(@, EndCall(pipe.args, pipe.header))])

NextPipe ==
    \/ \E id \in RequestIds : RunPerformanceMonitoring(id)
    \/ RunRequestLogger
    \/ \E statusCode \in StatusCodes, args \in EndArgs : Respond(statusCode, args)
    \/ \E duration \in Durations, heapHigh \in BOOLEAN :
          EndInPerformanceMonitoring(duration, heapHigh)
    \/ EndInRequestLogger
    \/ EndOriginal

SpecPipe == InitPipe /\ [][NextPipe]_vars

(* ------------------------ claims on the middleware -------------------- *)

Ran(mw) == \E i \in 1..Len(pipe.end) : pipe.end[i] = mw
Events(kind) == {i \in 1..Len(pipe.events) : pipe.events[i].kind = kind}
Logged(messages) ==
    {i \in Events("log") : pipe.events[i].message \in messages}

\* C24: once performanceMonitoring has run, the X-Request-ID response header
\* is set to req.requestId, for the middleware and handlers after it, and
\* every response sent carries it.
RequestIdHeaderSet ==
    /\ Ran("performanceMonitoring") =>
          pipe.requestId \in RequestIds /\ pipe.header = pipe.requestId
    /\ \A i \in Events("end") :
          pipe.events[i].header \in RequestIds /\ pipe.events[i].header = pipe.requestId

\* C24 witness: requestLogger runs after performanceMonitoring and finds the
\* header set; the response of the handler behind them carries it
HeaderSeenDownstream ==
    /\ pipe.end = <<"performanceMonitoring", "requestLogger">>
    /\ pipe.pc = "done" /\ pipe.statusCode = 404
    /\ pipe.events[Len(pipe.events)] = EndCall(pipe.called, "2-b")

\* C29: in either order of installation, one call of res.end runs the
\* logging of each wrapper once and the original res.end once, with the
\* arguments of the caller, and the original end runs after both logged.
EachWrapperOnce ==
    /\ pipe.pc = "ending" => Events("end") = {}
    /\ pipe.pc = "done" =>
          /\ Cardinality(Logged({"Request Completed:"})) = 1
          /\ Cardinality(Logged({"Slow Request Detected:", "Performance Metrics:"})) = 1
          /\ Events("end") = {Len(pipe.events)}
          /\ pipe.events[Len(pipe.events)].args = pipe.called

\* C29 witness: requestLogger installed last, a slow response ended with two
\* arguments
SlowResponseEndedOnce ==
    /\ pipe.end = <<"performanceMonitoring", "requestLogger">>
    /\ pipe.pc = "done" /\ pipe.called = <<"chunk", "utf8">>
    /\ Logged({"Slow Request Detected:"}) # {}
    /\ Logged({"Request Completed:"}) # {}

(* --------------------------- responseTimeTracker ---------------------- *)
NumEndpoints == 11
MaxTracked == 2
TopEntries == 10
ErrorFrom == 400

Endpoints == 1..NumEndpoints
TrackedDurations == {SlowAfter, SlowAfter + 1}
TrackedStatusCodes == {ErrorFrom - 1, ErrorFrom}

\* Map.get(key) || 0 and Map.set(key, value); a new key is added at the end
MapHas(map, key) == \E i \in 1..Len(map) : map[i][1] = key
MapGet(map, key) ==
    IF MapHas(map, key)
    THEN map[CHOOSE i \in 1..Len(map) : map[i][1] = key][2]
    ELSE 0
MapSet(map, key, value) ==
    IF MapHas(map, key)
    THEN [i \in 1..Len(map) |-> IF map[i][1] = key THEN <<key, value>> ELSE map[i]]
    ELSE Append(map, <<key, value>>)

\* variant of track: a status of 400 is no error
trackAbove(t, endpoint, duration, statusCode) ==
    [t EXCEPT
       !.slow = IF duration > SlowAfter
                THEN MapSet(@, endpoint, MapGet(@, endpoint) + 1) ELSE @,
       !.errors = IF statusCode > ErrorFrom
                  THEN MapSet(@, endpoint, MapGet(@, endpoint) + 1) ELSE @]

\* lines 150-164
track(t, endpoint, duration, statusCode) ==
    [t EXCEPT
       !.slow = IF duration > SlowAfter
                THEN MapSet(@, endpoint, MapGet(@, endpoint) + 1) ELSE @,
       !.errors = IF statusCode >= ErrorFrom
                  THEN MapSet(@, endpoint, MapGet(@, endpoint) + 1) ELSE @]

\* Array.prototype.sort((a, b) => b[1] - a[1]): stable, the larger count first
RECURSIVE SortByCount(_)
InsertByCount(sorted, entry) ==
    LET before == {i \in 1..Len(sorted) : sorted[i][2] >= entry[2]}
        k == Cardinality(before)
    IN  (SubSeq(sorted, 1, k) \o <<entry>>) \o SubSeq(sorted, k + 1, Len(sorted))
SortByCount(entries) ==
    IF entries = <<>> THEN <<>>
    ELSE InsertByCount(SortByCount(SubSeq(entries, 1, Len(entries) - 1)),
                       entries[Len(entries)])

\* lines 166-176: Array.from(map.entries()).sort(...).slice(0, 10)
TopOf(map) == Slice(SortByCount(map), 0, TopEntries)
getSlowEndpoints(t) == TopOf(t.slow)
getErrorEndpoints(t) == TopOf(t.errors)

\* the tracker after one slow call that failed on each of the first k endpoints
TrackedOnce(k) ==
    [NoTracker EXCEPT
       !.slow = [i \in 1..k |-> <<i, 1>>],
       !.errors = [i \in 1..k |-> <<i, 1>>],
       !.calls = [e \in Endpoints |-> IF e <= k THEN [slow |-> 1, errors |-> 1]
                                                ELSE [slow |-> 0, errors |-> 0]]]

InitTracker ==
    /\ posts = NoPosts
    /\ nextId = 1
    /\ creator = NoData
    /\ req = NoRequest
    /\ res = NoResponse
    /\ pre1 = NoList
    /\ pre2 = NoList
    /\ inflight = NoInflight
    /\ saveOrder = <<>>
    /\ nodeEnv = "test"
    /\ NothingHandled
    /\ NobodyAtTheGate
    /\ paging = NoPaging
    /\ pipe = NoPipe
    /\ proc = NoProc
    /\ boundary = NoBoundary
    /\ site = NoSite
    /\ \E k \in {0, NumEndpoints - 1, NumEndpoints} : tracker = TrackedOnce(k)

TrackerStep(t) ==
    /\ tracker' = t
    /\ UNCHANGED <<apiVars, raceVars, errVars, authVars, paging, pipe, proc, boundary, site>>

Track(endpoint, duration, statusCode) ==
    /\ tracker.n < MaxTracked
    /\ TrackerStep([track(tracker, endpoint, duration, statusCode) EXCEPT
          !.last = "track", !.result = <<>>, !.n = @ + 1,
          !.calls[endpoint] =
              [slow |-> IF duration <= SlowAfter THEN @.slow ELSE @.slow + 1,
               errors |-> IF statusCode < ErrorFrom THEN @.errors ELSE @.errors + 1]])

GetSlowEndpoints ==
    /\ tracker' = [tracker EXCEPT !.last = "getSlowEndpoints",
                                  !.result = getSlowEndpoints(tracker)]
    /\ UNCHANGED <<apiVars, raceVars, errVars, authVars, paging, pipe, proc, boundary, site>>

GetErrorEndpoints ==
    /\ tracker' = [tracker EXCEPT !.last = "getErrorEndpoints",
                                  !.result = getErrorEndpoints(tracker)]
    /\ UNCHANGED <<apiVars, raceVars, errVars, authVars, paging, pipe, proc, boundary, site>>

NextTracker ==
    \/ \E endpoint \in Endpoints, duration \in TrackedDurations,
          statusCode \in TrackedStatusCodes : Track(endpoint, duration, statusCode)
    \/ GetSlowEndpoints
    \/ GetErrorEndpoints

SpecTracker == InitTracker /\ [][NextTracker]_vars

(* ------------------------- claims on the tracker ---------------------- *)

CountOf(map, e) ==
    LET at == {i \in 1..Len(map) : map[i][1] = e}
    IN  IF at = {} THEN 0 ELSE map[CHOOSE i \in at : TRUE][2]
NonIncreasing(entries) ==
    \A i \in 1..Len(entries) - 1 : entries[i][2] >= entries[i + 1][2]
TopOfMap(entries, map) ==
    /\ Len(entries) = Min(Len(map), TopEntries)
    /\ NonIncreasing(entries)
    /\ \A i \in 1..Len(entries) : CountOf(map, entries[i][1]) = entries[i][2]
    /\ \A i, j \in 1..Len(entries) : i # j => entries[i][1] # entries[j][1]
    /\ \A k \in 1..Len(map) :
          (\E i \in 1..Len(entries) : entries[i] = map[k])
             \/ \A i \in 1..Len(entries) : entries[i][2] >= map[k][2]
CountersKept == tracker'.slow = tracker.slow /\ tracker'.errors = tracker.errors

\* C28: the slow counter of an endpoint is the number of tracked calls
\* with duration > 1000, its error counter the number with statusCode >=
\* 400; no counter ever decreases; a call with duration <= 1000 and
\* statusCode < 400 changes no counter; getSlowEndpoints and
\* getErrorEndpoints return at most 10 entries of their map, the largest
\* counts, in non-increasing order, and change no counter.
TrackerCounts ==
    /\ [](\A e \in Endpoints :
            /\ CountOf(tracker.slow, e) = tracker.calls[e].slow
            /\ CountOf(tracker.errors, e) = tracker.calls[e].errors)
    /\ [](tracker.last = "getSlowEndpoints" => TopOfMap(tracker.result, tracker.slow))
    /\ [](tracker.last = "getErrorEndpoints" => TopOfMap(tracker.result, tracker.errors))
    /\ [][/\ \A e \in Endpoints :
               /\ CountOf(tracker'.slow, e) >= CountOf(tracker.slow, e)
               /\ CountOf(tracker'.errors, e) >= CountOf(tracker.errors, e)
          /\ tracker'.last # "track" => CountersKept
          /\ \A e \in Endpoints :
               Track(e, SlowAfter, ErrorFrom - 1) => CountersKept]_vars

\* C28 witness: of eleven endpoints with errors the ten returned start with
\* the last one, which failed three times, and leave out the tenth
EleventhEndpointFirst ==
    /\ tracker.last = "getErrorEndpoints"
    /\ Len(tracker.errors) = 11 /\ Len(tracker.result) = 10
    /\ tracker.result[1] = <<11, 3>>
    /\ tracker.result[10] = <<9, 1>>
    /\ tracker.calls[11].slow = 1

(* --------------------------- graceful shutdown ------------------------ *)
MaxSignals == 3
MaxConnections == 3

Signals == {"SIGTERM", "SIGINT"}

\* variant of shutdown: no timer forces the exit
shutdownNoTimer(p, signal) ==
    [p EXCEPT !.signals = @ + 1,
              !.events = Append(@, signal),
              !.server = IF @ = "listening" THEN "closing" ELSE @,
              !.closeCalls = @ + 1,
              !.callbacks = @ + 1]

\* errorHandler.js lines 132-146: the signal is logged, server.close is
\* called with a callback that exits with 0, a timer is set that exits
\* with 1.  server.close stops the server from accepting connections; its
\* callback waits for the 'close' event, also when the server is closing
\* already
shutdown(p, signal) ==
    [p EXCEPT !.signals = @ + 1,
              !.events = Append(@, signal),
              !.server = IF @ = "listening" THEN "closing" ELSE @,
              !.closeCalls = @ + 1,
              !.callbacks = @ + 1,
              !.timers = @ + 1]

\* lines 136-139: the callback of server.close
closed(p) ==
    [p EXCEPT !.server = "closed", !.callbacks = 0,
              !.events = Append(@, "HTTP server closed."),
              !.exit = <<0>>]

\* lines 142-145: the callback of the timer set first
timeout(p) ==
    [p EXCEPT !.timers = @ - 1,
              !.events = Append(@, "Could not close connections in time"),
              !.exit = <<1>>]

\* the server is listening, the handler installed
InitShutdown ==
    /\ posts = NoPosts
    /\ nextId = 1
    /\ creator = NoData
    /\ req = NoRequest
    /\ res = NoResponse
    /\ pre1 = NoList
    /\ pre2 = NoList
    /\ inflight = NoInflight
    /\ saveOrder = <<>>
    /\ nodeEnv = "test"
    /\ NothingHandled
    /\ NobodyAtTheGate
    /\ paging = NoPaging
    /\ pipe = NoPipe
    /\ tracker = NoTracker
    /\ proc = NoProc
    /\ boundary = NoBoundary
    /\ site = NoSite

Running == proc.exit = <<>>

ProcStep(p) ==
    /\ proc' = p
    /\ UNCHANGED <<apiVars, raceVars, errVars, authVars, paging, pipe, tracker, boundary, site>>

\* lines 148-149: SIGTERM or SIGINT arrives
Signal(signal) ==
    /\ Running
    /\ proc.signals < MaxSignals
    /\ ProcStep(shutdown(proc, signal))

\* a client connects while the server accepts connections
Connect ==
    /\ Running
    /\ proc.server = "listening"
    /\ proc.connections < MaxConnections
    /\ ProcStep([proc EXCEPT !.connections = @ + 1])

\* a connection ends; clients may keep theirs open for ever
Disconnect ==
    /\ Running
    /\ proc.connections > 0
    /\ ProcStep([proc EXCEPT !.connections = @ - 1])

\* the closing server has no connection left: 'close' is emitted
ServerClosed ==
    /\ Running
    /\ proc.server = "closing"
    /\ proc.connections = 0
    /\ proc.callbacks > 0
    /\ ProcStep(closed(proc))

\* ten seconds after a signal the timer it set fires
TimerFires ==
    /\ Running
    /\ proc.timers > 0
    /\ ProcStep(timeout(proc))

NextShutdown ==
    \/ \E signal \in Signals : Signal(signal)
    \/ Connect
    \/ Disconnect
    \/ ServerClosed
    \/ TimerFires

SpecShutdown == InitShutdown /\ [][NextShutdown]_vars

\* the event loop runs a timer that is due
SpecShutdownLive == SpecShutdown /\ WF_vars(TimerFires)

(* -------------------------- claims on shutdown ------------------------ *)

Happened(event) == \E i \in 1..Len(proc.events) : proc.events[i] = event

\* C27: every SIGTERM or SIGINT eventually leads to the exit of the
\* process, also when a second signal arrives during the shutdown; the exit
\* code is 0 only when server.close completed and no timer had fired, 1
\* when the timer fired first; server.close is requested before any exit.
SignalLeadsToExit ==
    /\ (proc.signals > 0) ~> (proc.exit # <<>>)
    /\ [](proc.exit = <<0>> =>
             /\ proc.server = "closed"
             /\ Happened("HTTP server closed.")
             /\ ~Happened("Could not close connections in time"))
    /\ [](proc.exit = <<1>> =>
             /\ proc.server = "closing"
             /\ Happened("Could not close connections in time")
             /\ ~Happened("HTTP server closed."))
    /\ [](proc.exit # <<>> => proc.closeCalls >= 1 /\ proc.exit \in {<<0>>, <<1>>})
    /\ [](proc.closeCalls = proc.signals)

\* C27 witness: a second signal during the shutdown, a connection that stays
\* open, and the timer ends the process with code 1
SecondSignalThenForced ==
    /\ proc.events = <<"SIGTERM", "SIGINT", "Could not close connections in time">>
    /\ proc.exit = <<1>>
    /\ proc.connections = 1

(* ------------------------------ ErrorBoundary ------------------------- *)
MaxRenders == 5

Null == [null |-> TRUE]
ErrorIds == {"1-x", "2-y"}
TestError == [message |-> "Test error"]
ComponentStack == [componentStack |-> "in ThrowError"]

\* ErrorBoundary.jsx lines 4-12
InitialState == [hasError |-> FALSE, error |-> Null, errorInfo |-> Null, errorId |-> Null]

\* line 16: the object is merged into the state
getDerivedStateFromError(state) == [state EXCEPT !.hasError = TRUE]

\* lines 36-40: this.setState({ error, errorInfo, errorId })
componentDidCatch(state, error, errorInfo, errorId) ==
    [state EXCEPT !.error = error, !.errorInfo = errorInfo, !.errorId = [id |-> errorId]]

\* variant of handleReset: only the flag is reset
handleResetFlagOnly(state) == [state EXCEPT !.hasError = FALSE]

\* lines 80-87
handleReset(state) ==
    [state EXCEPT !.hasError = FALSE, !.error = Null, !.errorInfo = Null,
                  !.errorId = Null]

\* lines 106-167: the fallback, with the details in development once the
\* error is in the state and the report button in production, or the children
Fallback(state, env) ==
    [view |-> "fallback",
     details |-> env = "development" /\ state.error # Null,
     report |-> env = "production"]
Children == [view |-> "children", details |-> FALSE, report |-> FALSE]
render(state, env) == IF state.hasError THEN Fallback(state, env) ELSE Children

\* the component is mounted around a child that throws or does not
InitBoundary ==
    /\ posts = NoPosts
    /\ nextId = 1
    /\ creator = NoData
    /\ req = NoRequest
    /\ res = NoResponse
    /\ pre1 = NoList
    /\ pre2 = NoList
    /\ inflight = NoInflight
    /\ saveOrder = <<>>
    /\ nodeEnv \in Environments
    /\ NothingHandled
    /\ NobodyAtTheGate
    /\ paging = NoPaging
    /\ pipe = NoPipe
    /\ tracker = NoTracker
    /\ proc = NoProc
    /\ site = NoSite
    /\ \E child \in BOOLEAN :
          boundary = [NoBoundary EXCEPT !.state = InitialState, !.child = child,
                                        !.pc = "render"]

BoundaryStep(b) ==
    /\ boundary' = b
    /\ UNCHANGED <<apiVars, raceVars, errVars, authVars, paging, pipe, tracker, proc, site>>

\* the parent renders the boundary again, with a child that throws or not
Rerender(child) ==
    /\ boundary.pc = "idle"
    /\ Len(boundary.rendered) < MaxRenders
    /\ BoundaryStep([boundary EXCEPT !.child = child, !.pc = "render",
                                     !.last = "rerender"])

\* React renders the boundary; when its child throws it takes the state of
\* getDerivedStateFromError and renders again
Render ==
    /\ boundary.pc = "render"
    /\ LET out == render(boundary.state, nodeEnv)
           childThrew == out.view = "children" /\ boundary.child
           caught == getDerivedStateFromError(boundary.state)
       IN  BoundaryStep(
             IF childThrew
             THEN [boundary EXCEPT !.state = caught, !.pc = "commit",
                                   !.last = "getDerivedStateFromError",
                                   !.rendered = Append(@, render(caught, nodeEnv))]
             ELSE [boundary EXCEPT !.pc = "idle", !.last = "render",
                                   !.rendered = Append(@, out)])

\* lines 19-51, in the commit after the error was caught
ComponentDidCatch(errorId) ==
    /\ boundary.pc = "commit"
    /\ BoundaryStep([boundary EXCEPT
          !.state = componentDidCatch(@, TestError, ComponentStack, errorId),
          !.pc = "render", !.last = "componentDidCatch"])

\* the 'Try Again' button of the fallback is clicked
HandleReset ==
    /\ boundary.pc = "idle"
    /\ boundary.rendered # <<>>
    /\ boundary.rendered[Len(boundary.rendered)].view = "fallback"
    /\ Len(boundary.rendered) < MaxRenders
    /\ BoundaryStep([boundary EXCEPT !.state = handleReset(@), !.pc = "render",
                                     !.last = "handleReset"])

NextBoundary ==
    \/ \E child \in BOOLEAN : Rerender(child)
    \/ Render
    \/ \E errorId \in ErrorIds : ComponentDidCatch(errorId)
    \/ HandleReset

SpecBoundary == InitBoundary /\ [][NextBoundary]_vars

(* ----------------------- claims on the ErrorBoundary ------------------ *)

Rendering == Len(boundary'.rendered) > Len(boundary.rendered)
View == boundary'.rendered[Len(boundary'.rendered)].view
IsNull(x) == DOMAIN x = {"null"}
Pristine ==
    /\ ~boundary.state.hasError
    /\ IsNull(boundary.state.error)
    /\ IsNull(boundary.state.errorInfo)
    /\ IsNull(boundary.state.errorId)

MaxAccounts == 2
MaxIssued == 3

Usernames == {"ann", "bob"}
EmailInputs == {"a@x.io", "A@x.io", "b@x.io"}
Passwords == {"pw1", "pw2"}
LoginStatuses == {400, 401}

\* the address in lowercase
normalizeEmail(email) == IF email = "A@x.io" THEN "a@x.io" ELSE email

\* bcrypt: the hash is not the password; compare finds the password in it
Hash(password) == [hash |-> password]
comparePassword(candidate, hashed) == hashed = Hash(candidate)

AuthReply(code, status, message, data) ==
    [code |-> code, status |-> status, message |-> message, data |-> data]

\* User.findOne({ $or: [{ email }, { username }] })
FindByEmailOrUsername(users, email, username) ==
    {id \in DOMAIN users : users[id].email = email \/ users[id].username = username}

\* variant of register: only the email is looked up
registerByEmailOnly(s, username, email, password) ==
    IF \E id \in DOMAIN s.users : s.users[id].email = normalizeEmail(email)
    THEN [s EXCEPT !.res = AuthReply(400, "error", "User already exists", NoData)]
    ELSE LET doc == [id |-> s.nextUser, username |-> username,
                     email |-> normalizeEmail(email), password |-> Hash(password)]
         IN  [s EXCEPT
                !.users = (s.nextUser :> doc) @@ @,
                !.nextUser = @ + 1,
                !.res = AuthReply(201, "success", "User registered successfully",
                                  [token |-> Token(TRUE, FALSE, doc.id),
                                   user |-> WithoutPassword(doc)])]

register(s, username, email, password) ==
    IF FindByEmailOrUsername(s.users, normalizeEmail(email), username) # {}
    THEN [s EXCEPT !.res = AuthReply(400, "error", "User already exists", NoData)]
    ELSE LET doc == [id |-> s.nextUser, username |-> username,
                     email |-> normalizeEmail(email), password |-> Hash(password)]
         IN  [s EXCEPT
                !.users = (s.nextUser :> doc) @@ @,
                !.nextUser = @ + 1,
                !.res = AuthReply(201, "success", "User registered successfully",
                                  [token |-> Token(TRUE, FALSE, doc.id),
                                   user |-> WithoutPassword(doc)])]

\* the user a login names, by email or by username
FindForLogin(users, by, value) ==
    {id \in DOMAIN users :
        IF by = "email" THEN users[id].email = normalizeEmail(value)
                        ELSE users[id].username = value}

\* variant of login: a login that names no user is answered 404
loginTellsUnknown(s, by, value, password) ==
    LET found == FindForLogin(s.users, by, value)
    IN  IF found = {} THEN AuthReply(404, "error", "User not found", NoData)
        ELSE LET doc == s.users[CHOOSE id \in found : TRUE]
             IN  IF ~comparePassword(password, doc.password)
                 THEN AuthReply(s.loginStatus, "error", "Invalid credentials", NoData)
                 ELSE AuthReply(200, "success", "Login successful",
                                [token |-> Token(TRUE, FALSE, doc.id),
                                 user |-> WithoutPassword(doc)])

login(s, by, value, password) ==
    LET found == FindForLogin(s.users, by, value)
    IN  IF found = {}
        THEN AuthReply(s.loginStatus, "error", "Invalid credentials", NoData)
        ELSE LET doc == s.users[CHOOSE id \in found : TRUE]
             IN  IF ~comparePassword(password, doc.password)
                 THEN AuthReply(s.loginStatus, "error", "Invalid credentials", NoData)
                 ELSE AuthReply(200, "success", "Login successful",
                                [token |-> Token(TRUE, FALSE, doc.id),
                                 user |-> WithoutPassword(doc)])

\* variant of me: the document is returned as stored
meWithPassword(s, header) ==
    LET gated == AuthGate(header, FALSE, DOMAIN s.users)
    IN  IF gated.next
        THEN AuthReply(200, "success", "", [user |-> s.users[gated.user.id]])
        ELSE AuthReply(gated.res.status, "error", gated.res.message, NoData)

\* GET /api/auth/me: the auth middleware, then the user it attached
me(s, header) ==
    LET gated == AuthGate(header, FALSE, DOMAIN s.users)
    IN  IF gated.next
        THEN AuthReply(200, "success", "",
                       [user |-> WithoutPassword(s.users[gated.user.id])])
        ELSE AuthReply(gated.res.status, "error", gated.res.message, NoData)

\* no user yet; the login route answers failed logins with one status code
InitSite ==
    /\ posts = NoPosts
    /\ nextId = 1
    /\ creator = NoData
    /\ req = NoRequest
    /\ res = NoResponse
    /\ pre1 = NoList
    /\ pre2 = NoList
    /\ inflight = NoInflight
    /\ saveOrder = <<>>
    /\ nodeEnv = "test"
    /\ NothingHandled
    /\ NobodyAtTheGate
    /\ paging = NoPaging
    /\ pipe = NoPipe
    /\ tracker = NoTracker
    /\ proc = NoProc
    /\ boundary = NoBoundary
    /\ \E status \in LoginStatuses : site = [NoSite EXCEPT !.loginStatus = status]

SiteStep(s) ==
    /\ site' = s
    /\ UNCHANGED <<apiVars, raceVars, errVars, authVars, paging, pipe, tracker, proc,
                   boundary>>

Issued(s, out) ==
    IF out.code \in {200, 201}
    THEN Append(s.issued, [token |-> out.data.token, email |-> out.data.user.email,
                           submitted |-> s.registeredAs[out.data.token.userId]])
    ELSE s.issued

Register(username, email, password) ==
    /\ Len(site.issued) < MaxIssued
    /\ site.nextUser <= MaxAccounts
    /\ LET s == register(site, username, email, password)
           t == [s EXCEPT !.registeredAs = IF s.res.code = 201
                                           THEN (site.nextUser :> email) @@ @ ELSE @]
       IN  SiteStep([t EXCEPT
             !.op = "register",
             !.sent = [username |-> username, email |-> email, password |-> password],
             !.issued = Issued(t, s.res)])

Login(by, value, password) ==
    /\ Len(site.issued) < MaxIssued
    /\ LET out == login(site, by, value, password)
           known == \E id \in DOMAIN site.users :
                       \/ by = "email" /\ site.users[id].email = normalizeEmail(value)
                       \/ by = "username" /\ site.users[id].username = value
       IN  SiteStep([site EXCEPT
             !.op = "login",
             !.sent = [by |-> by, value |-> value, password |-> password],
             !.res = out,
             !.issued = Issued(site, out),
             !.failed = IF out.code = 200 THEN @
                        ELSE @ \cup {[what |-> IF known THEN "wrong password"
                                                         ELSE "no such user",
                                       res |-> out]}])

\* the client presents a token it was given; by then the token may have expired
Me(k, expired) ==
    /\ k \in 1..Len(site.issued)
    /\ LET token == [site.issued[k].token EXCEPT !.expired = expired]
           header == [present |-> TRUE, bearer |-> TRUE, token |-> token]
       IN  SiteStep([site EXCEPT
             !.op = "me",
             !.sent = [issued |-> k, token |-> token],
             !.res = me(site, header)])

\* DELETE /api/users/:id by the user
DeleteAccount(id) ==
    /\ id \in DOMAIN site.users
    /\ SiteStep([site EXCEPT
          !.op = "delete", !.sent = [id |-> id],
          !.users = [i \in DOMAIN @ \ {id} |-> @[i]],
          !.res = AuthReply(200, "success", "User deleted successfully", NoData)])

NextSite ==
    \/ \E username \in Usernames, email \in EmailInputs, password \in Passwords :
          Register(username, email, password)
    \/ \E value \in EmailInputs, password \in Passwords : Login("email", value, password)
    \/ \E value \in Usernames, password \in Passwords : Login("username", value, password)
    \/ \E k \in 1..MaxIssued, expired \in BOOLEAN : Me(k, expired)
    \/ \E id \in 1..MaxAccounts : DeleteAccount(id)

SpecSite == InitSite /\ [][NextSite]_vars

(* ------------------------ claims on the auth routes ------------------- *)

Stored == DOMAIN site.users
Taken(email, username) ==
    \E id \in Stored : site.users[id].email = email \/ site.users[id].username = username

\* C21: a registration whose email or username is that of a stored user is
\* answered 400 with status 'error', stores no user and leaves the stored
\* users as they are; no two stored users ever share a username or an email.
DuplicateRegistrationRefused ==
    /\ [](\A i, j \in Stored :
            i # j => /\ site.users[i].username # site.users[j].username
                     /\ site.users[i].email # site.users[j].email)
    /\ [][site'.op = "register" /\ site' # site
            /\ Taken(site'.sent.email, site'.sent.username) =>
               /\ site'.res.code = 400
               /\ site'.res.status = "error"
               /\ site'.users = site.users]_vars

\* C21 witness: bob's registration with the address of ann in capitals was
\* refused, ann is the only user
CapitalsRefused ==
    /\ site.op = "register" /\ site.res.code = 400
    /\ site.sent.username = "bob" /\ site.sent.email = "A@x.io"
    /\ Cardinality(Stored) = 1
    /\ \E id \in Stored : site.users[id].username = "ann" /\ site.users[id].email = "a@x.io"

Presented == site.issued[site.sent.issued]
Profile(email) ==
    /\ site.res.code = 200
    /\ site.res.data.user.email = email
    /\ "password" \notin DOMAIN site.res.data.user

====
